---- MODULE Spec2Model ----
(***************************************************************************)
(* Verification model of the TanzoLang Monte Carlo simulation code         *)
(* (clients/typescript/src/simulator.ts, utils.ts, index.ts).              *)
(*                                                                         *)
(* JavaScript Numbers are modelled as binary floating point with           *)
(* round-to-nearest, ties-to-even, at a precision of Prec bits (the        *)
(* program's doubles have 53) and a smallest quantum of 2^-Scale.  A       *)
(* finite Number is the integer numerator of a fraction over Unit.         *)
(***************************************************************************)
EXTENDS Integers, Sequences, FiniteSets, TLC

\* ------------------------------------------------------------------ bounds

\* significant bits of a Number (53 in the program)
Prec == 4
\* greatest integer used as a distribution parameter (mean, min, max)
MaxNum == 3
\* greatest length of the values and weights arrays of a Discrete distribution
MaxLen == 3
\* a weight is k/WSteps for k in 0..WSteps, so that it lies in [0,1]
WSteps == 2
\* greatest number of archetypes of a profile
MaxArch == 2
\* greatest iterations argument of simulateProfile
MaxTrials == 2
\* greatest length of the array passed to calculateStats
MaxGroup == 3
\* greatest number of seeded-simulation calls in a run
MaxCalls == 3
\* greatest iterations argument of runMonteCarlo and utils.ts simulateProfile
MaxIter == 2
\* the seeds given to the generator of utils.ts are in -MaxSeed..MaxSeed
MaxSeed == 40

\* --------------------------------------------------- JavaScript Numbers

RECURSIVE Pow2(_)
Pow2(n) == IF n <= 0 THEN 1 ELSE 2 * Pow2(n - 1)

\* the quantum 2^-Scale is the spacing of the smallest floats
Scale == Prec + 4
\* the numerator of 1.0
Unit == Pow2(Scale)

Abs(x) == IF x < 0 THEN -x ELSE x

\* the spacing u (a power of two) of the floats around p/q: the least u with
\* p/q < u * 2^Prec
RECURSIVE Ulp(_, _, _)
Ulp(p, q, u) == IF p < u * Pow2(Prec) * q THEN u ELSE Ulp(p, q, 2 * u)

\* the float nearest to p/q (p >= 0, q > 0), ties to the even mantissa
RoundPos(p, q) ==
    LET u == Ulp(p, q, 1)
        d == q * u
        m == p \div d
        rem == p - m * d
    IN  IF 2 * rem > d \/ (2 * rem = d /\ m % 2 = 1) THEN (m + 1) * u ELSE m * u

RoundRat(p, q) == IF p >= 0 THEN RoundPos(p, q) ELSE -RoundPos(-p, q)

\* a + b, a - b, a * b, a / b of two finite Numbers (b # 0 in FDiv)
FAdd(a, b) == RoundRat(a + b, 1)
FSub(a, b) == RoundRat(a - b, 1)
FMul(a, b) == RoundRat(a * b, Unit)
FDiv(a, b) == IF b > 0 THEN RoundRat(a * Unit, b) ELSE RoundRat(-a * Unit, -b)

\* the float nearest to the square root of the Number a >= 0
RECURSIVE FloorSqrt(_, _, _)
FloorSqrt(y, lo, hi) ==
    IF lo >= hi THEN lo
    ELSE LET mid == (lo + hi + 1) \div 2
         IN  IF mid * mid <= y THEN FloorSqrt(y, mid, hi) ELSE FloorSqrt(y, lo, mid - 1)

FSqrt(a) ==
    LET y == a * Unit
        s == FloorSqrt(y, 0, Pow2(Scale + 2))
        u == Ulp(s, 1, 1)
        m == s \div u
        mid2 == (2 * m + 1) * (2 * m + 1) * u * u
    IN  IF 4 * y > mid2 \/ (4 * y = mid2 /\ m % 2 = 1) THEN (m + 1) * u ELSE m * u

\* a Number that may be NaN (the result of 0/0)
NaN == [isNaN |-> TRUE, v |-> 0]
Fin(x) == [isNaN |-> FALSE, v |-> x]
\* a / b where b may be 0: weights are >= 0, so a zero sum means a = 0 and 0/0
XDiv(a, b) == IF b = 0 THEN NaN ELSE Fin(FDiv(a, b))
XAdd(a, b) == IF a.isNaN \/ b.isNaN THEN NaN ELSE Fin(FAdd(a.v, b.v))
\* a < b: false as soon as one side is NaN
XLess(a, b) == ~a.isNaN /\ ~b.isNaN /\ a.v < b.v
\* x || 0 for a Number x: 0 and NaN are falsy
OrZero(x) == IF x.isNaN \/ x.v = 0 THEN Fin(0) ELSE x

\* the values Math.random() returns: the multiples of 2^-Prec in [0,1)
RandomOutputs == {k * Pow2(Scale - Prec) : k \in 0..(Pow2(Prec) - 1)}

\* ------------------------------------------------------ JavaScript values

\* fin is FALSE only for the Numbers Infinity, -Infinity and NaN
Str(s) == [fin |-> TRUE, t |-> "string", v |-> s]
Num(n) == [fin |-> TRUE, t |-> "number", v |-> n]
Bool(b) == [fin |-> TRUE, t |-> "boolean", v |-> b]
Undefined == [fin |-> TRUE, t |-> "undefined", v |-> "undefined"]
NonFinite == [fin |-> FALSE, t |-> "number", v |-> 0]

\* a[i] of a JavaScript array (0-based): undefined outside the array
At(a, i) == IF i >= 0 /\ i < Len(a) THEN a[i + 1] ELSE Undefined

\* ------------------------------------------- sampleDistribution (simulator.ts)

\* weights.reduce((sum, w) => sum + w, 0)
RECURSIVE TotalWeight(_, _)
TotalWeight(weights, sum) ==
    IF weights = <<>> THEN sum
    ELSE TotalWeight(Tail(weights), FAdd(sum, Head(weights)))

\* weights.map(w => w / totalWeight)
NormalizedWeights(weights) ==
    LET totalWeight == TotalWeight(weights, 0)
    IN  [i \in 1..Len(weights) |-> XDiv(weights[i], totalWeight)]

\* acc[i] || 0 inside the reduce: acc holds the entries 0..i-1 when entry i is
\* computed, so acc[i] is undefined and the result is 0
LastValue(acc, i) == IF i < Len(acc) THEN OrZero(acc[i + 1]) ELSE Fin(0)

\* the reduce that builds cdf; i is the 0-based index of the next weight
RECURSIVE CdfFrom(_, _, _)
CdfFrom(nw, acc, i) ==
    IF i >= Len(nw) THEN acc
    ELSE CdfFrom(nw, Append(acc, XAdd(LastValue(acc, i), nw[i + 1])), i + 1)

Cdf(weights) == CdfFrom(NormalizedWeights(weights), <<>>, 0)

\* the while loop: left and right are 0-based
RECURSIVE BinarySearch(_, _, _, _)
BinarySearch(cdf, r, left, right) ==
    IF left < right
    THEN LET mid == (left + right) \div 2
         IN  IF XLess(cdf[mid + 1], Fin(r))
             THEN BinarySearch(cdf, r, mid + 1, right)
             ELSE BinarySearch(cdf, r, left, mid)
    ELSE left

\* the 0-based index the discrete branch reads values at
DiscreteIndex(weights, r) ==
    LET cdf == Cdf(weights) IN BinarySearch(cdf, r, 0, Len(cdf) - 1)

\* min + Math.random() * (max - min)
UniformValue(d, r) == FAdd(d.min, FMul(r, FSub(d.max, d.min)))

\* the draws the normal branch is tried on: 0, 1/2 and 3/4
NormalDraws == {0, Unit \div 2, (3 * Unit) \div 4}

\* y = u * 2^k with 1 <= y < 2, for a Number 0 < u < 1
RECURSIVE Normalise(_, _)
Normalise(u, k) == IF u >= Unit THEN [y |-> u, k |-> k] ELSE Normalise(2 * u, k + 1)

\* ln y in units of 1/100000, for 1 <= y < 2, by ln y = 2 artanh t with
\* t = (y-1)/(y+1): 2 (t + t^3/3 + t^5/5 + t^7/7)
LnSeries(t, t2) ==
    2 * (t + ((t * t2) \div 100000) \div 3
           + ((((t * t2) \div 100000) * t2) \div 100000) \div 5
           + ((((((t * t2) \div 100000) * t2) \div 100000) * t2) \div 100000) \div 7)
LnMantissa(y) ==
    LnSeries(((y - Unit) * 100000) \div (y + Unit),
             ((((y - Unit) * 100000) \div (y + Unit))
              * (((y - Unit) * 100000) \div (y + Unit))) \div 100000)

\* Math.log(u) for a Number 0 < u < 1: ln y - k ln 2 (ln 2 = 0.69315)
LogOf(n) == -RoundRat((n.k * 69315 - LnMantissa(n.y)) * Unit, 100000)
Log(u) == LogOf(Normalise(u, 0))

\* cos x in units of 1/10000 for x2 = x^2 and x4 = x^4 in those units,
\* 0 <= x <= pi/2: 1 - x^2/2 + x^4/24 - x^6/720 + x^8/40320
CosSeries(x2, x4) ==
    10000 - x2 \div 2 + x4 \div 24 - ((x4 * x2) \div 10000) \div 720
          + (((((x4 * x2) \div 10000) \div 10) * x2) \div 1000) \div 40320
CosOf(x) == CosSeries((x * x) \div 10000, (((x * x) \div 10000) * ((x * x) \div 10000)) \div 10000)
\* cos(2 pi w) for a Number 0 <= w <= 1/4 (2 pi = 6.2832)
CosQuarter(w) == RoundRat(CosOf((62832 * w) \div Unit) * Unit, 10000)
\* cos(2 pi v) for 0 <= v <= 1/2: cos(2 pi v) = -cos(2 pi (1/2 - v))
CosHalf(v) == IF 4 * v <= Unit THEN CosQuarter(v) ELSE -CosQuarter(Unit \div 2 - v)
\* Math.cos(2.0 * Math.PI * u) for a Number 0 <= u < 1; a result below the
\* quantum, as at u = 1/4 and u = 3/4, is 0
Cos2Pi(u) == IF 2 * u <= Unit THEN CosHalf(u) ELSE CosHalf(Unit - u)

\* Math.sqrt(-2.0 * Math.log(u1)) * Math.cos(2.0 * Math.PI * u2), for u1 > 0
BoxMuller(u1, u2) == FMul(FSqrt(FMul(-2 * Unit, Log(u1))), Cos2Pi(u2))

\* z0 * stdDev + mean; with u1 = 0, ln 0 = -Infinity makes z0 infinite
NormalValue(d, u1, u2) ==
    IF u1 = 0 THEN NonFinite
    ELSE Num(FAdd(FMul(BoxMuller(u1, u2), d.stdDev), d.mean))

\* sampleDistribution: u holds the next outputs of Math.random
SampleDistribution(d, u) ==
    IF d.distribution = "normal"
    THEN [outcome |-> "returned", value |-> NormalValue(d, u[1], u[2]),
          used |-> 2, log |-> u[1]]
    ELSE IF d.distribution = "uniform"
    THEN [outcome |-> "returned", value |-> Num(UniformValue(d, u[1])),
          used |-> 1, log |-> -1]
    ELSE IF d.distribution = "discrete"
    THEN [outcome |-> "returned",
          value |-> At(d.values, DiscreteIndex(d.weights, u[1])),
          used |-> 1, log |-> -1]
    ELSE [outcome |-> "threw", value |-> Undefined, used |-> 0, log |-> -1]

\* --------------------------------------------- calculateStats (simulator.ts)

\* String(n) for a finite Number n: its decimal expansion
DigitNames == <<"0", "1", "2", "3", "4", "5", "6", "7", "8", "9">>
RECURSIVE IntDigits(_)
IntDigits(n) ==
    IF n < 10 THEN DigitNames[n + 1]
    ELSE IntDigits(n \div 10) \o DigitNames[(n % 10) + 1]
RECURSIVE FracDigits(_)
FracDigits(r) ==
    IF r = 0 THEN ""
    ELSE DigitNames[((10 * r) \div Unit) + 1] \o FracDigits((10 * r) % Unit)
NumberToString(n) ==
    LET a == Abs(n)
        whole == IntDigits(a \div Unit)
        text == IF a % Unit = 0 THEN whole ELSE whole \o "." \o FracDigits(a % Unit)
    IN  IF n < 0 THEN "-" \o text ELSE text

\* String(value)
ToStr(value) ==
    IF value.t = "string" THEN value.v
    ELSE IF value.t = "boolean" THEN (IF value.v THEN "true" ELSE "false")
    ELSE IF value.t = "undefined" THEN "undefined"
    ELSE IF value.fin THEN NumberToString(value.v)
    ELSE "Infinity"

\* the property names every object literal {} inherits from Object.prototype
ProtoKeys ==
    {"constructor", "toString", "toLocaleString", "valueOf", "hasOwnProperty",
     "isPrototypeOf", "propertyIsEnumerable", "__proto__"}
\* String(m) of the inherited member m: a function, or under __proto__ the
\* prototype object; either is truthy and is no Number
Inherited(key) ==
    [fin |-> TRUE, t |-> "object",
     v |-> IF key = "__proto__" THEN "[object Object]"
           ELSE "function " \o key \o "() { [native code] }"]

\* frequencies[key] for the object literal whose own properties are freq
GetProperty(freq, key) ==
    IF key \in DOMAIN freq THEN freq[key]
    ELSE IF key \in ProtoKeys THEN Inherited(key)
    ELSE Undefined

\* (x || 0) + 1: an object or a string is concatenated with "1"
OrZeroPlusOne(x) ==
    IF x.t = "undefined" THEN Num(Unit)
    ELSE IF x.t = "number" THEN Num(FAdd(x.v, Unit))
    ELSE Str(x.v \o "1")

\* frequencies[key] = value: an assignment to __proto__ of a value that is no
\* object is ignored by the setter of Object.prototype
SetProperty(freq, key, value) ==
    IF key = "__proto__" THEN freq
    ELSE [k \in DOMAIN freq \cup {key} |-> IF k = key THEN value ELSE freq[k]]

\* the loop that counts the String-rendered values
RECURSIVE Frequencies(_, _)
Frequencies(values, freq) ==
    IF values = <<>> THEN freq
    ELSE LET key == ToStr(Head(values))
         IN  Frequencies(Tail(values),
                 SetProperty(freq, key, OrZeroPlusOne(GetProperty(freq, key))))

\* count / values.length
Ratio(count, n) ==
    IF count.t = "number" /\ n > 0 THEN Num(FDiv(count.v, n * Unit)) ELSE NonFinite

\* a sort that leaves the array in the order it came in
KeepOrder(xs) == xs

\* [...values].sort((a, b) => a - b) on finite Numbers
RECURSIVE Insert(_, _)
Insert(sorted, x) ==
    IF sorted = <<>> THEN <<x>>
    ELSE IF x < Head(sorted) THEN <<x>> \o sorted
    ELSE <<Head(sorted)>> \o Insert(Tail(sorted), x)
RECURSIVE SortNumbers(_)
SortNumbers(xs) ==
    IF xs = <<>> THEN <<>> ELSE Insert(SortNumbers(Tail(xs)), Head(xs))

\* xs.reduce((a, b) => a + b, 0)
RECURSIVE SumNumbers(_, _)
SumNumbers(xs, acc) ==
    IF xs = <<>> THEN acc ELSE SumNumbers(Tail(xs), FAdd(acc, Head(xs)))

\* the sample variance: divisor n - 1
SampleVariance(squareDiffs) ==
    IF Len(squareDiffs) = 1 THEN 0
    ELSE FDiv(SumNumbers(squareDiffs, 0), (Len(squareDiffs) - 1) * Unit)

\* squareDiffs.reduce((a, b) => a + b, 0) / squareDiffs.length
AvgSquareDiff(squareDiffs) ==
    FDiv(SumNumbers(squareDiffs, 0), Len(squareDiffs) * Unit)

\* the numeric branch on a non-empty group of finite Numbers
NumericStats(xs) ==
    LET sorted == SortNumbers(xs)
        n == Len(sorted)
        mean == FDiv(SumNumbers(sorted, 0), n * Unit)
        median == IF n % 2 = 0
                  THEN FDiv(FAdd(sorted[n \div 2], sorted[(n \div 2) + 1]), 2 * Unit)
                  ELSE sorted[(n \div 2) + 1]
        squareDiffs == [i \in 1..n |-> FMul(FSub(sorted[i], mean), FSub(sorted[i], mean))]
        avgSquareDiff == AvgSquareDiff(squareDiffs)
    IN  [kind |-> "numeric", mean |-> Num(mean), median |-> Num(median),
         min |-> Num(sorted[1]), max |-> Num(sorted[n]),
         stdDev |-> Num(FSqrt(avgSquareDiff)), frequencies |-> <<>>,
         fixed_value |-> Undefined]

\* the numeric branch on the empty group: 0/0 and sorted[0] of an empty array
EmptyStats ==
    [kind |-> "numeric", mean |-> NonFinite, median |-> NonFinite,
     min |-> Undefined, max |-> Undefined, stdDev |-> NonFinite, frequencies |-> <<>>,
     fixed_value |-> Undefined]

\* the numeric branch on a group that holds an infinite Number: its statistics
\* are Infinity or NaN and are not told apart here
InfiniteStats ==
    [kind |-> "numeric", mean |-> NonFinite, median |-> NonFinite,
     min |-> NonFinite, max |-> NonFinite, stdDev |-> NonFinite, frequencies |-> <<>>,
     fixed_value |-> Undefined]

\* the categorical branch
CategoricalStats(values) ==
    LET frequencies == Frequencies(values, <<>>)
    IN  [kind |-> "categorical", mean |-> Undefined, median |-> Undefined,
         min |-> Undefined, max |-> Undefined, stdDev |-> Undefined,
         frequencies |-> [k \in DOMAIN frequencies |->
                             Ratio(frequencies[k], Len(values))],
         fixed_value |-> Undefined]

\* values.every(v => typeof v === 'number')
AllNumbers(values) == \A i \in 1..Len(values) : values[i].t = "number"

CalculateStats(values) ==
    IF AllNumbers(values)
    THEN IF values = <<>> THEN EmptyStats
         ELSE IF \E i \in 1..Len(values) : ~values[i].fin THEN InfiniteStats
         ELSE NumericStats([i \in 1..Len(values) |-> values[i].v])
    ELSE CategoricalStats(values)

\* ------------------------- simulateProfileOnce, simulateProfile (simulator.ts)

\* obj[key] = value on an object held as a function from its keys
Put(obj, key, value) ==
    [k \in DOMAIN obj \cup {key} |-> IF k = key THEN value ELSE obj[k]]

\* archetype.name || archetype.type: an absent name is the empty string
ArchetypeName(archetype) ==
    IF archetype.name # "" THEN archetype.name ELSE archetype.type

\* typeof value === 'object' && 'distribution' in value
IsDistribution(value) == "distribution" \in DOMAIN value

\* a simulateAttribute that passes every attribute to the sampler
SampleEveryAttribute(attribute, u) ==
    IF IsDistribution(attribute.value)
    THEN LET res == SampleDistribution(attribute.value, u)
         IN  [outcome |-> res.outcome, value |-> res.value, used |-> res.used,
              calls |-> 1]
    ELSE [outcome |-> "returned", value |-> attribute.value, used |-> 0,
          calls |-> 1]

\* simulateAttribute on the outputs u of Math.random still to come; calls is
\* the number of sampleDistribution calls it made
SimulateAttribute(attribute, u) ==
    IF IsDistribution(attribute.value)
    THEN LET res == SampleDistribution(attribute.value, u)
         IN  [outcome |-> res.outcome, value |-> res.value, used |-> res.used,
              calls |-> 1]
    ELSE [outcome |-> "returned", value |-> attribute.value, used |-> 0,
          calls |-> 0]

\* the loop over the attributes of one archetype, from attribute j on:
\* archetypeResult, the draws left, the sampled values, the outcome
RECURSIVE SimulateAttributes(_, _, _, _, _)
\* the body of the loop for attribute j, whose simulateAttribute call gave sim
AttributeTurn(attributes, j, u, archetypeResult, log, sim) ==
    IF sim.outcome = "threw"
    THEN [outcome |-> "threw", result |-> archetypeResult, rest |-> u,
          log |-> Append(log, [attr |-> j, value |-> Undefined])]
    ELSE SimulateAttributes(attributes, j + 1,
             SubSeq(u, sim.used + 1, Len(u)),
             Put(archetypeResult, attributes[j].name, sim.value),
             IF sim.calls > 0
             THEN Append(log, [attr |-> j, value |-> sim.value])
             ELSE log)
SimulateAttributes(attributes, j, u, archetypeResult, log) ==
    IF j > Len(attributes)
    THEN [outcome |-> "returned", result |-> archetypeResult, rest |-> u, log |-> log]
    ELSE AttributeTurn(attributes, j, u, archetypeResult, log,
                       SimulateAttribute(attributes[j], u))

\* the sampleDistribution calls of archetype i, in the order they were made
LogEntries(i, log) ==
    [k \in 1..Len(log) |-> [arch |-> i, attr |-> log[k].attr, value |-> log[k].value]]

\* simulateProfileOnce, from archetype i on; log lists the sampleDistribution
\* calls of the trial in the order they were made
RECURSIVE SimulateArchetypes(_, _, _, _, _)
\* the body of the loop for archetype i, whose attribute loop gave sim
ArchetypeTurn(archetypes, i, result, log, sim) ==
    IF sim.outcome = "threw"
    THEN [outcome |-> "threw", result |-> result, log |-> log \o LogEntries(i, sim.log)]
    ELSE SimulateArchetypes(archetypes, i + 1, sim.rest,
             Put(result, ArchetypeName(archetypes[i]), sim.result),
             log \o LogEntries(i, sim.log))
SimulateArchetypes(archetypes, i, u, result, log) ==
    IF i > Len(archetypes)
    THEN [outcome |-> "returned", result |-> result, log |-> log]
    ELSE ArchetypeTurn(archetypes, i, result, log,
             SimulateAttributes(archetypes[i].attributes, 1, u, <<>>, <<>>))

SimulateProfileOnce(archetypes, u) == SimulateArchetypes(archetypes, 1, u, <<>>, <<>>)

\* a simulateProfileOnce that fills one object shared by all the trials
SharedResult(results, result) == [k \in 1..Len(results) |-> result]

\* the results of the earlier trials once a trial has built its result: every
\* call starts from a new object (const result = {}), the earlier ones stay
ResultsAfterTrial(results, result) == results

\* a sampler that writes the normalized weights back into the distribution
NormalizeInPlace(weights) ==
    [i \in 1..Len(weights) |->
        IF TotalWeight(weights, 0) = 0 THEN 0
        ELSE FDiv(weights[i], TotalWeight(weights, 0))]

\* distribution.weights after sampleDistribution: reduce and map build new
\* arrays and leave the one they are called on as it was
WeightsAfter(weights) == weights

\* the distribution, the attribute, the archetype and the profile after one
\* simulateProfileOnce: nothing else of them is the target of an assignment
DistributionAfter(d) ==
    IF d.distribution = "discrete"
    THEN [d EXCEPT !.weights = WeightsAfter(d.weights)]
    ELSE d
AttributeAfter(attribute) ==
    IF IsDistribution(attribute.value)
    THEN [attribute EXCEPT !.value = DistributionAfter(attribute.value)]
    ELSE attribute
ArchetypeAfter(archetype) ==
    [archetype EXCEPT !.attributes =
        [j \in 1..Len(archetype.attributes) |-> AttributeAfter(archetype.attributes[j])]]
ProfileAfterTrial(archetypes) ==
    [i \in 1..Len(archetypes) |-> ArchetypeAfter(archetypes[i])]

\* result[archetypeName][attrName]; a missing attribute reads as undefined
ResultValue(result, archetypeName, attrName) ==
    IF attrName \in DOMAIN result[archetypeName]
    THEN result[archetypeName][attrName]
    ELSE Undefined

\* { fixed_value: attribute.value }
FixedEntry(value) ==
    [kind |-> "fixed", mean |-> Undefined, median |-> Undefined,
     min |-> Undefined, max |-> Undefined, stdDev |-> Undefined,
     frequencies |-> <<>>, fixed_value |-> value]

\* a summary that computes statistics for every attribute, fixed or not
StatsForEveryAttribute(attribute, archetypeName, results) ==
    CalculateStats([k \in 1..Len(results) |->
                       ResultValue(results[k], archetypeName, attribute.name)])

\* the entry of one attribute of the summary: statistics of the values read
\* from allResults under (archetypeName, attrName), or the fixed value
AttributeEntry(attribute, archetypeName, results) ==
    IF IsDistribution(attribute.value)
    THEN CalculateStats([k \in 1..Len(results) |->
                            ResultValue(results[k], archetypeName, attribute.name)])
    ELSE FixedEntry(attribute.value)

\* the loop over the attributes of one archetype of the summary
RECURSIVE AttributeStats(_, _, _, _, _)
AttributeStats(attributes, j, archetypeName, results, attributeStats) ==
    IF j > Len(attributes) THEN attributeStats
    ELSE AttributeStats(attributes, j + 1, archetypeName, results,
             Put(attributeStats, attributes[j].name,
                 AttributeEntry(attributes[j], archetypeName, results)))

\* summary.archetypes, from archetype i on
RECURSIVE SummaryArchetypes(_, _, _, _)
SummaryArchetypes(archetypes, i, results, acc) ==
    IF i > Len(archetypes) THEN acc
    ELSE LET archetypeName == ArchetypeName(archetypes[i])
         IN  SummaryArchetypes(archetypes, i + 1, results,
                 Put(acc, archetypeName,
                     AttributeStats(archetypes[i].attributes, 1, archetypeName,
                                    results, <<>>)))

\* what the JSON schema requires of a distribution, an attribute value, an
\* archetype and the archetypes list
ValidDistribution(d) ==
    \/ d.distribution = "normal" /\ d.stdDev > 0
    \/ d.distribution = "uniform"
    \/ /\ d.distribution = "discrete"
       /\ Len(d.values) >= 1
       /\ Len(d.weights) >= 1
       /\ \A k \in 1..Len(d.weights) : d.weights[k] >= 0 /\ d.weights[k] <= Unit
       /\ \A k \in 1..Len(d.values) : d.values[k].t \in {"string", "number", "boolean"}

ValidAttribute(attribute) ==
    IF IsDistribution(attribute.value)
    THEN ValidDistribution(attribute.value)
    ELSE attribute.value.t \in {"string", "number", "boolean"}

ValidArchetype(archetype) ==
    /\ archetype.type \in {"digital", "physical", "hybrid"}
    /\ Len(archetype.attributes) >= 1
    /\ \A j \in 1..Len(archetype.attributes) : ValidAttribute(archetype.attributes[j])

\* a validation that accepts every document
AcceptAnything(archetypes) == TRUE

SchemaValid(archetypes) ==
    /\ Len(archetypes) >= 1
    /\ \A i \in 1..Len(archetypes) : ValidArchetype(archetypes[i])

\* the Zod schemas of typescript-validator.ts. An archetype's name is required
\* (the empty string stands for a missing name), its attributes array has no
\* minimum length; the values array of a discrete distribution has none
\* either, and its weights are optional
ZodValidDistribution(d) ==
    \/ d.distribution = "normal" /\ d.stdDev > 0
    \/ d.distribution = "uniform"
    \/ /\ d.distribution = "discrete"
       /\ \A k \in 1..Len(d.values) : d.values[k].t \in {"string", "number", "boolean"}

ZodValidAttribute(attribute) ==
    IF IsDistribution(attribute.value)
    THEN ZodValidDistribution(attribute.value)
    ELSE attribute.value.t \in {"string", "number", "boolean"}

ZodValidArchetype(archetype) ==
    /\ archetype.type \in {"digital", "physical", "hybrid", "social", "emotional",
                           "cognitive"}
    /\ archetype.name # ""
    /\ \A j \in 1..Len(archetype.attributes) :
          ZodValidAttribute(archetype.attributes[j])

ZodValid(archetypes) ==
    /\ Len(archetypes) >= 1
    /\ \A i \in 1..Len(archetypes) : ZodValidArchetype(archetypes[i])

\* the number of Math.random outputs one trial consumes
DrawsOf(value) ==
    IF ~IsDistribution(value) THEN 0
    ELSE IF value.distribution = "normal" THEN 2
    ELSE IF value.distribution \in {"uniform", "discrete"} THEN 1
    ELSE 0
RECURSIVE SumOver(_, _)
SumOver(f, n) == IF n = 0 THEN 0 ELSE f[n] + SumOver(f, n - 1)
DrawsOfArchetype(archetype) ==
    SumOver([j \in 1..Len(archetype.attributes) |->
                DrawsOf(archetype.attributes[j].value)], Len(archetype.attributes))
DrawsPerTrial(archetypes) ==
    SumOver([i \in 1..Len(archetypes) |-> DrawsOfArchetype(archetypes[i])],
            Len(archetypes))

\* ------------- seeded simulations (simulator.ts simulateProfile with options,
\* ------------- runMonteCarlo; utils.ts simulateProfile)

\* the optional seed argument
NoSeed == [given |-> FALSE, v |-> 0]
Seed(n) == [given |-> TRUE, v |-> n]

Min(a, b) == IF a < b THEN a ELSE b
Max(a, b) == IF a > b THEN a ELSE b
\* Math.max(0.0, Math.min(1.0, value))
Clamp(x) == Max(0, Min(Unit, x))

\* the Number a generator output t/den is: 0 for t = 0, else the float nearest to
\* t/den that is above 0 and below 1
ToDraw(t, den) ==
    IF t = 0 THEN 0
    ELSE Max(1, Min(Unit - Pow2(Scale - Prec), RoundRat(t * Unit, den)))

\* the first outputs, in 1/10000, of the closure of simulateProfile for a seed:
\* s = Math.sin(s) * 10000; return s - Math.floor(s), as doubles compute them.
\* From the seed 0 every output is 0, since Math.sin(0) is 0.
SinOutputs(seed) ==
    IF seed = 0 THEN [k \in 1..24 |-> 0]
    ELSE IF seed = 1
    THEN <<7098, 3875, 2053, 8224, 1075, 84, 8131, 6627,
           8626, 4644, 6878, 1396, 8027, 9025, 184, 6563,
           788, 2474, 5426, 6081, 5454, 3842, 9029, 2628>>
    ELSE IF seed = 2
    THEN <<9742, 8526, 3709, 2497, 5346, 4515, 4518, 2614,
           7259, 7078, 5185, 4408, 2399, 3065, 8640, 8911,
           1777, 3707, 814, 7451, 6349, 6856, 3657, 2340>>
    ELSE <<2000, 1964, 9149, 2556, 8190, 5332, 9203, 3123,
           7033, 3303, 2306, 1922, 4618, 2569, 4399, 260,
           7338, 587, 667, 7587, 2572, 7202, 7740, 2947>>

\* Math.random as the engine provides it
NativeRandom == [id |-> 0, seed |-> 0, k |-> 0]
\* a closure assigned only while Math.random is still the engine's function
KeepRandom(current, seed) ==
    IF current.id = 0 THEN [id |-> 1, seed |-> seed, k |-> 0] ELSE current
\* the closure simulateProfile assigns to Math.random: a new function (id) that
\* starts from the seed
SeededRandom(current, seed) == [id |-> current.id + 1, seed |-> seed, k |-> 0]

\* the n-th next output of the function gen held by Math.random; native lists
\* the outputs of the engine's generator, taken in turn
Output(gen, n, native) ==
    IF gen.id = 0 THEN native[((n - 1) % Len(native)) + 1]
    ELSE ToDraw(SinOutputs(gen.seed)[gen.k + n], 10000)
\* gen after n outputs
Advance(gen, n) == IF gen.id = 0 THEN gen ELSE [gen EXCEPT !.k = @ + n]

\* the sign of z when u1 = 0: Math.log(0) is -Infinity and z is Infinity times
\* Math.cos(2 pi u2), which is no 0 in doubles (6e-17 at 1/4, -1.8e-16 at 3/4)
CosPositive(u2) == 4 * u2 <= Unit \/ 4 * u2 > 3 * Unit
\* Math.max(0.0, Math.min(1.0, value + z * sd)) for sd > 0
ClampedNormal(value, sd, u1, u2) ==
    IF u1 = 0 THEN (IF CosPositive(u2) THEN Unit ELSE 0)
    ELSE Clamp(FAdd(value, FMul(BoxMuller(u1, u2), sd)))

\* the loop over the attributes of the archetype, from attribute j on; acc
\* holds attributeValues, the number of outputs used and the arguments of
\* Math.log so far
RECURSIVE AttributeValues(_, _, _, _, _, _)
AttributeValues(attrs, j, randomize, gen, native, acc) ==
    IF j > Len(attrs) THEN acc
    ELSE IF randomize /\ attrs[j].variance # 0
    THEN AttributeValues(attrs, j + 1, randomize, gen, native,
             [values |-> Put(acc.values, attrs[j].name,
                             ClampedNormal(attrs[j].value, attrs[j].variance,
                                           Output(gen, acc.used + 1, native),
                                           Output(gen, acc.used + 2, native))),
              used |-> acc.used + 2,
              log |-> Append(acc.log, Output(gen, acc.used + 1, native))])
    ELSE AttributeValues(attrs, j + 1, randomize, gen, native,
             [values |-> Put(acc.values, attrs[j].name, attrs[j].value),
              used |-> acc.used, log |-> acc.log])

\* { ...state.attributeValues, ...state.archetypeValues } and Math.random as
\* the call leaves it
SeededRun(p, gen, acc) ==
    [result |-> Put(acc.values, p.archetype, p.weight),
     gen |-> Advance(gen, acc.used),
     log |-> acc.log]

\* Math.random during the call: replaced when a seed is given
GeneratorFor(current, seed) ==
    IF seed.given THEN SeededRandom(current, seed.v) ELSE current

\* simulateProfile(profile, {randomize, seed}) with current in Math.random
SimulateSeeded(p, randomize, seed, current, native) ==
    SeededRun(p, GeneratorFor(current, seed),
              AttributeValues(p.traits, 1, randomize, GeneratorFor(current, seed),
                              native, [values |-> <<>>, used |-> 0, log |-> <<>>]))

\* values.reduce((sum, val) => sum + val, 0) / values.length
MeanOf(xs) == FDiv(SumNumbers(xs, 0), Len(xs) * Unit)
\* Math.sqrt(values.reduce((sum, val) => sum + Math.pow(val - mean, 2), 0)
\*           / values.length)
DeviationOf(xs, mean) ==
    FSqrt(FDiv(SumNumbers([i \in 1..Len(xs) |->
                              FMul(FSub(xs[i], mean), FSub(xs[i], mean))], 0),
               Len(xs) * Unit))

\* the loop of runMonteCarlo from iteration i on; acc holds results,
\* Math.random and the arguments of Math.log so far
RECURSIVE MonteCarloRuns(_, _, _, _)
MonteCarloTurn(p, i, iterations, acc, run) ==
    MonteCarloRuns(p, i + 1, iterations,
        [results |-> Append(acc.results, run.result), gen |-> run.gen,
         log |-> acc.log \o run.log])
MonteCarloRuns(p, i, iterations, acc) ==
    IF i >= iterations THEN acc
    ELSE MonteCarloTurn(p, i, iterations, acc,
             SimulateSeeded(p, TRUE, Seed(i), acc.gen, <<0>>))

\* the keys of all results, and results.map(r => r[key] || 0.0)
AllKeys(results) == UNION {DOMAIN results[k] : k \in 1..Len(results)}
KeyValues(results, key) ==
    [k \in 1..Len(results) |-> IF key \in DOMAIN results[k] THEN results[k][key] ELSE 0]

MonteCarloStats(runs) ==
    [result |->
        [means |-> [key \in AllKeys(runs.results) |-> MeanOf(KeyValues(runs.results, key))],
         stdevs |-> [key \in AllKeys(runs.results) |->
                        DeviationOf(KeyValues(runs.results, key),
                                    MeanOf(KeyValues(runs.results, key)))]],
     gen |-> runs.gen,
     log |-> runs.log]

\* runMonteCarlo(profile, iterations) with current in Math.random
RunMonteCarlo(p, iterations, current) ==
    MonteCarloStats(MonteCarloRuns(p, 0, iterations,
                        [results |-> <<>>, gen |-> current, log |-> <<>>]))

\* the constants of the generator of utils.ts
LcgMultiplier == 9301
LcgIncrement == 49297
LcgModulus == 233280

\* seed = (seed * 9301 + 49297) % 233280 for a seed above -233280: the
\* remainder of JavaScript has the sign of the dividend, which is negative
\* for a seed below -5; the product is taken in two parts
\* (9301 = 93 * 100 + 1) so that it stays below 2^31
LcgNext(seed) ==
    LET m == ((((seed * (LcgMultiplier \div 100)) % LcgModulus) * 100
               + seed * (LcgMultiplier % 100) + LcgIncrement) % LcgModulus)
    IN  IF seed >= 0 - (LcgIncrement \div LcgMultiplier) \/ m = 0 THEN m
        ELSE m - LcgModulus
\* seed after n calls of rng
RECURSIVE LcgState(_, _)
LcgState(seed, n) == IF n = 0 THEN seed ELSE LcgState(LcgNext(seed), n - 1)

\* the n-th output of rng: seed / 233280 of the local generator when a seed is
\* given, else of the function found in Math.random
RngOutput(seed, gen, native, n) ==
    IF seed.given THEN ToDraw(LcgState(seed.v, n), LcgModulus)
    ELSE Output(gen, n, native)

\* trait.variance || 0.1
VarianceOrDefault(variance) == IF variance = 0 THEN RoundRat(Unit, 10) ELSE variance

\* simulatedTraits[traitName] for trait j: numIterations values, each from two
\* outputs of rng
TraitValues(traits, j, numIterations, seed, gen, native) ==
    [i \in 1..numIterations |->
        ClampedNormal(traits[j].value, VarianceOrDefault(traits[j].variance),
            RngOutput(seed, gen, native, 2 * numIterations * (j - 1) + 2 * i - 1),
            RngOutput(seed, gen, native, 2 * numIterations * (j - 1) + 2 * i))]

\* Math.min(...values), Math.max(...values)
MinOf(xs) == CHOOSE x \in {xs[i] : i \in 1..Len(xs)} : \A i \in 1..Len(xs) : x <= xs[i]
MaxOf(xs) == CHOOSE x \in {xs[i] : i \in 1..Len(xs)} : \A i \in 1..Len(xs) : x >= xs[i]

\* the statistics of one trait
TraitStats(values) ==
    [mean |-> MeanOf(values), stdDev |-> DeviationOf(values, MeanOf(values)),
     range |-> <<MinOf(values), MaxOf(values)>>]

\* the loop over the traits from trait j on; acc maps a trait name to its
\* statistics
RECURSIVE TraitLoop(_, _, _, _, _, _, _)
TraitLoop(traits, j, numIterations, seed, gen, native, acc) ==
    IF j > Len(traits) THEN acc
    ELSE TraitLoop(traits, j + 1, numIterations, seed, gen, native,
             Put(acc, traits[j].name,
                 TraitStats(TraitValues(traits, j, numIterations, seed, gen, native))))

\* simulateProfile(profile, numIterations, seed) of utils.ts, numIterations >= 1,
\* with gen in Math.random: the result, Math.random as the call leaves it and
\* the arguments of Math.log
UtilsSimulate(p, numIterations, seed, gen, native) ==
    [result |-> TraitLoop(p.traits, 1, numIterations, seed, gen, native, <<>>),
     gen |-> IF seed.given THEN gen
             ELSE Advance(gen, 2 * numIterations * Len(p.traits)),
     log |-> [m \in 1..(numIterations * Len(p.traits)) |->
                 RngOutput(seed, gen, native, 2 * m - 1)]]

\* ------------------------------------------------------------------ state

VARIABLES
    \* one call of sampleDistribution
    dist,        \* the distribution passed to sampleDistribution
    draws,       \* the Math.random() outputs the call consumed, in order
    logArg,      \* the argument of Math.log in the call (a Number), or -1
    sampled,     \* the value the call returned
    spc,         \* "ready" before the call, then "returned" or "threw"
    \* one call of simulateProfile(profilePath, iterations)
    profile,     \* profile.profile.archetypes of the file at profilePath
    iterations,  \* the iterations argument
    allResults,  \* the results of the trials run so far
    sampleLog,   \* every sampleDistribution call so far: trial, archetype,
                 \* attribute (by position) and the value returned
    trialDraws,  \* the Math.random() outputs each trial so far was run on
    summary,     \* summary.archetypes once the call has returned
    simError,    \* the message of the error thrown, if any
    simpc,       \* "validate", "trials", then "returned" or "threw"
    \* one call of calculateStats
    group,       \* the array passed to calculateStats
    stats,       \* the object the call returned
    stpc,        \* "ready" before the call, then "returned"
    \* a run of calls of simulateProfile(profile, options), runMonteCarlo and
    \* utils.ts simulateProfile in one process
    mathRandom,  \* the function Math.random holds: id 0 is the engine's, every
                 \* closure assigned to it gets the next id; seed and k tell
                 \* the closure's seed and the number of outputs taken from it
    returned,    \* the calls that have returned, each with its result
    again,       \* a call with a seed was made a second time, after a call
                 \* with other arguments
    minLogArg,   \* the least argument passed to Math.log so far (1.0 if none)
    ncalls,      \* the number of calls so far
    \* one document given to the two validators
    document,    \* profile.archetypes of the document
    ajvVerdict,  \* "none" before validate(data), then "accepted" or "rejected"
    zodVerdict   \* "none" before parse(profile), then "accepted" or "rejected"

sampleVars == <<dist, draws, logArg, sampled, spc>>
simVars ==
    <<profile, iterations, allResults, sampleLog, trialDraws, summary, simError, simpc>>
statVars == <<group, stats, stpc>>
seedVars == <<mathRandom, returned, again, minLogArg, ncalls>>
validVars == <<document, ajvVerdict, zodVerdict>>
VARIABLES
    \* one TanzoSimulator or TanzoExporter and the calls made on it
    holder,      \* the class of the object
    held,        \* this.profile
    loadedOnce,  \* a loadProfile call on the object has returned
    lastCall,    \* the last call: method, argument, outcome and error thrown
    loadCalls    \* the number of calls made on the object so far
loadVars == <<holder, held, loadedOnce, lastCall, loadCalls>>
VARIABLES
    \* one call of runSimulation(document, iterations) of index.ts
    indexDocument,    \* the document argument
    indexIterations,  \* the iterations argument
    indexDraw,        \* the output of Math.random() during the call
    indexCall,        \* outcome, error, results and the trait values computed
    indexpc           \* "ready" before the call, then "done"
indexVars == <<indexDocument, indexIterations, indexDraw, indexCall, indexpc>>
VARIABLES
    \* one call of simulateProfile(profile, {randomize}) on a profile with
    \* modifiers
    modProfile,    \* profile.profile: archetypes and modifiers
    modRandomize,  \* options.randomize
    modNative,     \* the outputs of Math.random(), taken in turn
    modState,      \* state: archetypeValues, attributeValues, activeModifiers
    modLog,        \* for each applyEffect call so far: the effect, the values
                   \* it found and the values it left
    modResult,     \* the object the call returned
    modpc          \* "start", "modifiers", then "returned"
modVars == <<modProfile, modRandomize, modNative, modState, modLog, modResult, modpc>>
VARIABLES
    \* the closure rng of one call of utils.ts simulateProfile with a seed
    lcgSeed,     \* the seed argument
    lcgState,    \* the variable seed of the closure
    lcgOutputs   \* the numerators of the values rng has returned, over 233280
lcgVars == <<lcgSeed, lcgState, lcgOutputs>>
VARIABLES
    \* one SimulationResult of simulation.ts and the calls made on it
    resProfile,  \* the profile it was constructed for
    resResult,   \* iterations, the three value arrays, capabilityActivations
    resLastCall  \* the last call made: "new", "addIteration" or "simulate"
resVars == <<resProfile, resResult, resLastCall>>
VARIABLES
    \* one call of TanzoSimulator.runSimulation(iterations, scenarios) of
    \* simulator.ts and of summarizeSimulation on its result
    scenarios,         \* the scenario names: each a list of the parts that
                       \* underscores separate
    scenIterations,    \* the iterations argument
    decisions,         \* every simulateDecision call so far: scenario, outcome
    decisionOutcomes,  \* the entries [key, count] in insertion order
    scenarioOutcomes,  \* the counts summarizeSimulation prints, by scenario
                       \* and outcome
    scenpc             \* "loop", "returned", then "summarized"
scenVars ==
    <<scenarios, scenIterations, decisions, decisionOutcomes, scenarioOutcomes, scenpc>>
VARIABLES
    \* one profile object and the exportShorthand(profile) calls of utils.ts
    \* made on it
    expProfile,  \* the profile object as it is now
    expBefore,   \* the profile object as it was before the first call
    expOutput,   \* the parts of the string the last call returned
    expCalls     \* the number of calls so far
expVars == <<expProfile, expBefore, expOutput, expCalls>>
vars ==
    <<sampleVars, simVars, statVars, seedVars, validVars,
      loadVars, indexVars, modVars, lcgVars, resVars, scenVars, expVars>>

\* the distributions the calls are tried on
NumVals == {n * Unit : n \in 0..MaxNum}
WeightVals == {k * (Unit \div WSteps) : k \in 0..WSteps}
LabelNames == <<"low", "medium", "high", "extreme", "none">>
Labels(n) == [i \in 1..n |-> Str(LabelNames[i])]

Distribution(kind, mean, stdDev, min, max, values, weights) ==
    [distribution |-> kind, mean |-> mean, stdDev |-> stdDev,
     min |-> min, max |-> max, values |-> values, weights |-> weights]
Normal(mean, stdDev) == Distribution("normal", mean, stdDev, 0, 0, <<>>, <<>>)
Uniform(min, max) == Distribution("uniform", 0, 0, min, max, <<>>, <<>>)
Discrete(values, weights) == Distribution("discrete", 0, 0, 0, 0, values, weights)
OtherDistribution == Distribution("other", 0, 0, 0, 0, <<>>, <<>>)

\* what the JSON schema accepts: stdDev > 0, at least one value and one weight,
\* weights in [0,1]; it relates neither min to max nor values to weights
NormalDistributions == {Normal(m, s) : m \in NumVals, s \in NumVals \ {0}}
UniformDistributions == {Uniform(a, b) : a \in NumVals, b \in NumVals}
DiscreteDistributions ==
    UNION {{Discrete(Labels(n), w) : w \in [1..m -> WeightVals]} :
           n \in 1..MaxLen, m \in 1..MaxLen}
SchemaDistributions ==
    NormalDistributions \cup UniformDistributions \cup DiscreteDistributions

\* the archetypes and profiles the simulateProfile calls are tried on
Half == Unit \div 2
Attr(name, value) == [name |-> name, value |-> value]
Archetype(type, name, attributes) ==
    [type |-> type, name |-> name, attributes |-> attributes]
\* two archetypes without a name and of the same type, two of the same name,
\* one with fewer weights than values and with max < min, one whose second
\* attribute holds a distribution of a kind the schema does not know
Archetypes ==
    {Archetype("digital", "", <<Attr("x", Num(2 * Unit)), Attr("y", Uniform(0, Unit))>>),
     Archetype("digital", "", <<Attr("x", Normal(Unit, Unit)), Attr("y", Str("kai"))>>),
     Archetype("physical", "twin",
               <<Attr("x", Discrete(Labels(2), <<Half, Half>>)),
                 Attr("y", Discrete(Labels(2), <<0, 0>>))>>),
     Archetype("hybrid", "twin",
               <<Attr("x", Uniform(Unit, 2 * Unit)),
                 Attr("y", Discrete(Labels(2), <<Half>>)),
                 Attr("z", Uniform(2 * Unit, Unit))>>),
     Archetype("physical", "",
               <<Attr("x", Uniform(0, Unit)), Attr("y", OtherDistribution)>>)}
\* the lists of 0..MaxArch archetypes; the empty list fails validation
Profiles == UNION {[1..n -> Archetypes] : n \in 0..MaxArch}
\* the outputs of Math.random the trials are tried on
SimDraws == {0, (3 * Unit) \div 4}
\* the streams of n outputs a trial is tried on: n times the same output
DrawStreams(n) == {[k \in 1..n |-> d] : d \in SimDraws}

SampleIdle ==
    /\ dist = OtherDistribution
    /\ draws = <<>>
    /\ logArg = -1
    /\ sampled = Undefined
    /\ spc = "idle"

SimIdle ==
    /\ profile = <<>>
    /\ iterations = 0
    /\ allResults = <<>>
    /\ sampleLog = <<>>
    /\ trialDraws = <<>>
    /\ summary = <<>>
    /\ simError = ""
    /\ simpc = "idle"

\* the values the arrays passed to calculateStats are made of
StatValues ==
    <<Num(Unit), Num(2 * Unit), Num(3 * Unit), Str("1"), Str("a"), Bool(TRUE),
      Str("toString"), Str("__proto__")>>

StatIdle ==
    /\ group = <<>>
    /\ stats = <<>>
    /\ stpc = "idle"

\* the profiles, options and seeds the seeded simulations are tried on: one
\* archetype with one attribute (trait), with and without a variance
Trait(name, value, variance) == [name |-> name, value |-> value, variance |-> variance]
SeedProfile(traits) == [archetype |-> "core", weight |-> Unit, traits |-> traits]
WithVariance == SeedProfile(<<Trait("openness", Half, Unit \div 4)>>)
NoVariance == SeedProfile(<<Trait("openness", (3 * Unit) \div 4, 0)>>)
\* the arguments of the simulateProfile(profile, options) calls
SimArguments ==
    {[profile |-> WithVariance, randomize |-> TRUE, seed |-> s] :
        s \in {NoSeed, Seed(0), Seed(1)}}
    \cup {[profile |-> NoVariance, randomize |-> TRUE, seed |-> Seed(1)]}
\* the seeds of the utils.ts calls; 22643 is the seed whose first output is 0
UtilsSeeds == {NoSeed, Seed(22643)}
\* the outputs of the engine's Math.random, repeated in turn
NativeStreams == {<<0>>, <<Half, Unit \div 8>>}

\* the archetypes the validators are tried on: those of the simulations, one
\* without attributes and one of a type only the Zod schema knows
DocArchetypes ==
    Archetypes \cup {Archetype("digital", "solo", <<>>),
                     Archetype("social", "kin", <<Attr("x", Num(Unit))>>)}
Documents == UNION {[1..n -> DocArchetypes] : n \in 0..MaxArch}

ValidIdle ==
    /\ document = <<>>
    /\ ajvVerdict = "idle"
    /\ zodVerdict = "idle"

Call(fn, p, n, randomize, seed) ==
    [fn |-> fn, profile |-> p, n |-> n, randomize |-> randomize, seed |-> seed]
SeedIdle ==
    /\ mathRandom = NativeRandom
    /\ returned = {}
    /\ again = FALSE
    /\ minLogArg = Unit
    /\ ncalls = -1

LoadIdle ==
    /\ holder = "idle"
    /\ held = <<>>
    /\ loadedOnce = FALSE
    /\ lastCall = <<>>
    /\ loadCalls = -1
IndexIdle ==
    /\ indexDocument = <<>>
    /\ indexIterations = 0
    /\ indexDraw = 0
    /\ indexCall = <<>>
    /\ indexpc = "idle"
ModIdle ==
    /\ modProfile = <<>>
    /\ modRandomize = FALSE
    /\ modNative = <<>>
    /\ modState = <<>>
    /\ modLog = <<>>
    /\ modResult = <<>>
    /\ modpc = "idle"
LcgIdle ==
    /\ lcgSeed = 0
    /\ lcgState = 0
    /\ lcgOutputs = <<-1>>
ResIdle ==
    /\ resProfile = <<>>
    /\ resResult = <<>>
    /\ resLastCall = "idle"
ScenIdle ==
    /\ scenarios = <<>>
    /\ scenIterations = 0
    /\ decisions = <<>>
    /\ decisionOutcomes = <<>>
    /\ scenarioOutcomes = <<>>
    /\ scenpc = "idle"
ExpIdle ==
    /\ expProfile = <<>>
    /\ expBefore = <<>>
    /\ expOutput = <<>>
    /\ expCalls = -1

InitSample ==
    /\ dist \in SchemaDistributions \cup {OtherDistribution}
    /\ draws = <<>>
    /\ logArg = -1
    /\ sampled = Undefined
    /\ spc = "ready"
    /\ SimIdle
    /\ StatIdle
    /\ SeedIdle
    /\ ValidIdle
    /\ LoadIdle
    /\ IndexIdle
    /\ ModIdle
    /\ LcgIdle
    /\ ResIdle
    /\ ScenIdle
    /\ ExpIdle

\* sampleDistribution(dist) drawing the outputs u of Math.random
SampleWith(u) ==
    LET res == SampleDistribution(dist, u)
    IN  /\ draws' = SubSeq(u, 1, res.used)
        /\ logArg' = res.log
        /\ sampled' = res.value
        /\ spc' = res.outcome
        /\ UNCHANGED <<dist, simVars, statVars, seedVars, validVars>>
        /\ UNCHANGED <<loadVars, indexVars, modVars, lcgVars, resVars, scenVars, expVars>>

\* the normal branch: two draws
SampleNormalCall ==
    /\ spc = "ready"
    /\ dist.distribution = "normal"
    /\ \E u1 \in NormalDraws, u2 \in NormalDraws : SampleWith(<<u1, u2>>)

\* the uniform branch: one draw
SampleUniformCall ==
    /\ spc = "ready"
    /\ dist.distribution = "uniform"
    /\ \E r \in RandomOutputs : SampleWith(<<r>>)

\* the discrete branch: one draw
SampleDiscreteCall ==
    /\ spc = "ready"
    /\ dist.distribution = "discrete"
    /\ \E r \in RandomOutputs : SampleWith(<<r>>)

\* no branch taken: throw new Error("Unknown distribution type")
SampleUnknownCall ==
    /\ spc = "ready"
    /\ dist.distribution \notin {"normal", "uniform", "discrete"}
    /\ SampleWith(<<>>)

NextSample ==
    \/ SampleNormalCall
    \/ SampleUniformCall
    \/ SampleDiscreteCall
    \/ SampleUnknownCall

SpecSample == InitSample /\ [][NextSample]_vars

\* ------------------------------------------ the steps of simulateProfile

InitSim ==
    /\ profile \in Profiles
    /\ iterations \in (-1)..MaxTrials
    /\ allResults = <<>>
    /\ sampleLog = <<>>
    /\ trialDraws = <<>>
    /\ summary = <<>>
    /\ simError = ""
    /\ simpc = "validate"
    /\ SampleIdle
    /\ StatIdle
    /\ SeedIdle
    /\ ValidIdle
    /\ LoadIdle
    /\ IndexIdle
    /\ ModIdle
    /\ LcgIdle
    /\ ResIdle
    /\ ScenIdle
    /\ ExpIdle

\* validateProfile(profilePath) returns the profile
SimValidateOk ==
    /\ simpc = "validate"
    /\ SchemaValid(profile)
    /\ simpc' = "trials"
    /\ UNCHANGED <<profile, iterations, allResults, sampleLog, trialDraws, summary,
                   simError>>
    /\ UNCHANGED <<sampleVars, statVars, seedVars, validVars>>
    /\ UNCHANGED <<loadVars, indexVars, modVars, lcgVars, resVars, scenVars, expVars>>

\* validateProfile(profilePath) throws
SimValidateFail ==
    /\ simpc = "validate"
    /\ ~SchemaValid(profile)
    /\ simpc' = "threw"
    /\ simError' = "Schema validation failed"
    /\ UNCHANGED <<profile, iterations, allResults, sampleLog, trialDraws, summary>>
    /\ UNCHANGED <<sampleVars, statVars, seedVars, validVars>>
    /\ UNCHANGED <<loadVars, indexVars, modVars, lcgVars, resVars, scenVars, expVars>>

\* one turn of the loop: allResults.push(simulateProfileOnce(profile))
SimTrial ==
    /\ simpc = "trials"
    /\ Len(allResults) < iterations
    /\ \E u \in DrawStreams(DrawsPerTrial(profile)) :
          LET sim == SimulateProfileOnce(profile, u)
              trial == Len(allResults) + 1
          IN  /\ trialDraws' = Append(trialDraws, u)
              /\ sampleLog' = sampleLog \o
                     [k \in 1..Len(sim.log) |->
                         [trial |-> trial, arch |-> sim.log[k].arch,
                          attr |-> sim.log[k].attr, value |-> sim.log[k].value]]
              /\ IF sim.outcome = "threw"
                 THEN /\ simpc' = "threw"
                      /\ simError' = "Unknown distribution type"
                      /\ UNCHANGED allResults
                 ELSE /\ allResults' = Append(ResultsAfterTrial(allResults, sim.result),
                                               sim.result)
                      /\ UNCHANGED <<simpc, simError>>
    /\ profile' = ProfileAfterTrial(profile)
    /\ UNCHANGED <<iterations, summary>>
    /\ UNCHANGED <<sampleVars, statVars, seedVars, validVars>>
    /\ UNCHANGED <<loadVars, indexVars, modVars, lcgVars, resVars, scenVars, expVars>>

\* the loop has ended: the summary is built and returned
SimSummarize ==
    /\ simpc = "trials"
    /\ ~(Len(allResults) < iterations)
    /\ summary' = SummaryArchetypes(profile, 1, allResults, <<>>)
    /\ simpc' = "returned"
    /\ UNCHANGED <<profile, iterations, allResults, sampleLog, trialDraws, simError>>
    /\ UNCHANGED <<sampleVars, statVars, seedVars, validVars>>
    /\ UNCHANGED <<loadVars, indexVars, modVars, lcgVars, resVars, scenVars, expVars>>

NextSim ==
    \/ SimValidateOk
    \/ SimValidateFail
    \/ SimTrial
    \/ SimSummarize

SpecSim == InitSim /\ [][NextSim]_vars

\* ------------------------------------------------- a call of calculateStats

InitStats ==
    /\ \E n \in 0..MaxGroup : \E f \in [1..n -> 1..Len(StatValues)] :
          group = [i \in 1..n |-> StatValues[f[i]]]
    /\ stats = <<>>
    /\ stpc = "ready"
    /\ SampleIdle
    /\ SimIdle
    /\ SeedIdle
    /\ ValidIdle
    /\ LoadIdle
    /\ IndexIdle
    /\ ModIdle
    /\ LcgIdle
    /\ ResIdle
    /\ ScenIdle
    /\ ExpIdle

\* calculateStats(group) takes the numeric branch
StatsNumericCall ==
    /\ stpc = "ready"
    /\ AllNumbers(group)
    /\ stats' = CalculateStats(group)
    /\ stpc' = "returned"
    /\ UNCHANGED <<group, sampleVars, simVars, seedVars, validVars>>
    /\ UNCHANGED <<loadVars, indexVars, modVars, lcgVars, resVars, scenVars, expVars>>

\* calculateStats(group) takes the categorical branch
StatsCategoricalCall ==
    /\ stpc = "ready"
    /\ ~AllNumbers(group)
    /\ stats' = CalculateStats(group)
    /\ stpc' = "returned"
    /\ UNCHANGED <<group, sampleVars, simVars, seedVars, validVars>>
    /\ UNCHANGED <<loadVars, indexVars, modVars, lcgVars, resVars, scenVars, expVars>>

NextStats ==
    \/ StatsNumericCall
    \/ StatsCategoricalCall

SpecStats == InitStats /\ [][NextStats]_vars

\* --------------------------------- one document given to the validators

InitValidate ==
    /\ document \in Documents
    /\ ajvVerdict = "none"
    /\ zodVerdict = "none"
    /\ SampleIdle
    /\ SimIdle
    /\ StatIdle
    /\ SeedIdle
    /\ LoadIdle
    /\ IndexIdle
    /\ ModIdle
    /\ LcgIdle
    /\ ResIdle
    /\ ScenIdle
    /\ ExpIdle

\* validate(data) of the compiled JSON schema
AjvValidateCall ==
    /\ ajvVerdict = "none"
    /\ ajvVerdict' = IF SchemaValid(document) THEN "accepted" ELSE "rejected"
    /\ UNCHANGED <<document, zodVerdict, sampleVars, simVars, statVars, seedVars>>
    /\ UNCHANGED <<loadVars, indexVars, modVars, lcgVars, resVars, scenVars, expVars>>

\* tanzoLangSchema.parse(profile) in validateTanzoProfile
ZodParseCall ==
    /\ zodVerdict = "none"
    /\ zodVerdict' = IF ZodValid(document) THEN "accepted" ELSE "rejected"
    /\ UNCHANGED <<document, ajvVerdict, sampleVars, simVars, statVars, seedVars>>
    /\ UNCHANGED <<loadVars, indexVars, modVars, lcgVars, resVars, scenVars, expVars>>

NextValidate ==
    \/ AjvValidateCall
    \/ ZodParseCall

SpecValidate == InitValidate /\ [][NextValidate]_vars

\* --------------------------------------- a run of seeded-simulation calls

InitSeed ==
    /\ mathRandom = NativeRandom
    /\ returned = {}
    /\ again = FALSE
    /\ minLogArg = Unit
    /\ ncalls = 0
    /\ SampleIdle
    /\ SimIdle
    /\ StatIdle
    /\ ValidIdle
    /\ LoadIdle
    /\ IndexIdle
    /\ ModIdle
    /\ LcgIdle
    /\ ResIdle
    /\ ScenIdle
    /\ ExpIdle

\* the call has a seed: one given, or the iteration number in runMonteCarlo
Seeded(call) == call.seed.given \/ call.fn = "runMonteCarlo"

\* the least of m and the Numbers of log
RECURSIVE LeastOf(_, _)
LeastOf(log, m) == IF log = <<>> THEN m ELSE LeastOf(Tail(log), Min(m, Head(log)))

\* the call returns run: its result, Math.random as it leaves it and the
\* arguments it passed to Math.log
Return(call, run) ==
    /\ mathRandom' = run.gen
    /\ returned' = returned \cup {[call |-> call, result |-> run.result]}
    /\ again' = (\/ again
                 \/ /\ Seeded(call)
                    /\ \E r \in returned : r.call = call
                    /\ \E r \in returned : r.call # call)
    /\ minLogArg' = LeastOf(run.log, minLogArg)
    /\ ncalls' = ncalls + 1
    /\ UNCHANGED <<sampleVars, simVars, statVars, validVars>>
    /\ UNCHANGED <<loadVars, indexVars, modVars, lcgVars, resVars, scenVars, expVars>>

\* simulateProfile(profile, {randomize, seed}) of simulator.ts
SimulateProfileCall ==
    /\ ncalls >= 0
    /\ ncalls < MaxCalls
    /\ \E a \in SimArguments, native \in NativeStreams :
          Return(Call("simulateProfile", a.profile, 1, a.randomize, a.seed),
                 SimulateSeeded(a.profile, a.randomize, a.seed, mathRandom, native))

\* runMonteCarlo(profile, n)
RunMonteCarloCall ==
    /\ ncalls >= 0
    /\ ncalls < MaxCalls
    /\ \E n \in 0..MaxIter :
          Return(Call("runMonteCarlo", WithVariance, n, TRUE, NoSeed),
                 RunMonteCarlo(WithVariance, n, mathRandom))

\* simulateProfile(profile, n, seed) of utils.ts
UtilsSimulateCall ==
    /\ ncalls >= 0
    /\ ncalls < MaxCalls
    /\ \E n \in 1..MaxIter, seed \in UtilsSeeds, native \in NativeStreams :
          Return(Call("utils.simulateProfile", WithVariance, n, FALSE, seed),
                 UtilsSimulate(WithVariance, n, seed, mathRandom, native))

NextSeed ==
    \/ SimulateProfileCall
    \/ RunMonteCarloCall
    \/ UtilsSimulateCall

SpecSeed == InitSeed /\ [][NextSeed]_vars

\* --------------------- TanzoSimulator (schemas.ts), TanzoExporter (exporter.ts)

\* this.profile before any assignment, and the value parseProfile returns
NoProfile == [t |-> "undefined", name |-> ""]
ParsedProfile(name) == [t |-> "object", name |-> name]
\* the guard replaced by one that never finds the profile missing
AlwaysLoaded(this) == FALSE
\* !this.profile
ProfileMissing(this) == this.t = "undefined"

\* profile data: what tanzoProfileSchema makes of it is all that is told
\* apart (the schema module itself is not among the sources)
ProfileData(name, conforms) == [name |-> name, conforms |-> conforms]
NullData == ProfileData("null", FALSE)

\* the files: a path is its segments, the last one the extension
File(path, parses, data) == [path |-> path, parses |-> parses, data |-> data]
Files ==
    {File(<<"a", ".yaml">>, TRUE, ProfileData("A", TRUE)),
     File(<<"bad", ".yml">>, TRUE, ProfileData("bad", FALSE)),
     File(<<"b", ".json">>, TRUE, ProfileData("B", TRUE)),
     File(<<"broken", ".json">>, FALSE, NullData),
     File(<<"a", ".txt">>, TRUE, ProfileData("A", TRUE))}
EndsWith(path, suffix) == path # <<>> /\ path[Len(path)] = suffix

Returned(value) == [outcome |-> "returned", error |-> "", profile |-> value]
Thrown(error, value) == [outcome |-> "threw", error |-> error, profile |-> value]

\* tanzoProfileSchema.parse inside validate and inside parseProfile
Validate(profileData) ==
    IF profileData.conforms THEN Returned(NoProfile)
    ELSE Thrown("Profile validation failed", NoProfile)
ParseProfile(profileData) ==
    IF profileData.conforms THEN Returned(ParsedProfile(profileData.name))
    ELSE Thrown("Profile parsing failed", NoProfile)

\* the assignment made first and the validation after it
AssignThenValidate(current, profileData) ==
    IF Validate(profileData).outcome = "threw"
    THEN Thrown(Validate(profileData).error, ParsedProfile(profileData.name))
    ELSE Returned(ParseProfile(profileData).profile)

\* this.validator.validate(data); this.profile = this.validator.parseProfile(data)
ValidateAndAssign(current, profileData) ==
    IF Validate(profileData).outcome = "threw"
    THEN Thrown(Validate(profileData).error, current)
    ELSE IF ParseProfile(profileData).outcome = "threw"
    THEN Thrown(ParseProfile(profileData).error, current)
    ELSE Returned(ParseProfile(profileData).profile)

\* the arguments of the constructor and of loadProfile
Argument(type, truthy, path, data) ==
    [type |-> type, truthy |-> truthy, path |-> path, data |-> data]
PathArgument(path) == Argument("string", path # <<>>, path, NullData)
ObjectArgument(data) == Argument("object", TRUE, <<>>, data)
NullArgument == Argument("object", FALSE, <<>>, NullData)
NumberArgument(truthy) == Argument("number", truthy, <<>>, NullData)
NoArgument == Argument("undefined", FALSE, <<>>, NullData)
LoadArguments ==
    {PathArgument(f.path) : f \in Files}
    \cup {PathArgument(<<"missing", ".json">>), PathArgument(<<>>),
          ObjectArgument(ProfileData("A", TRUE)), ObjectArgument(ProfileData("bad", FALSE)),
          NullArgument, NumberArgument(TRUE), NumberArgument(FALSE), NoArgument}

\* loadProfile(arg) on an object whose this.profile is current
LoadProfile(current, arg) ==
    IF arg.type = "string"
    THEN IF \A f \in Files : f.path # arg.path
         THEN Thrown("ENOENT", current)
         ELSE LET file == CHOOSE f \in Files : f.path = arg.path
              IN  IF EndsWith(arg.path, ".yaml") \/ EndsWith(arg.path, ".yml")
                  THEN IF file.parses THEN ValidateAndAssign(current, file.data)
                       ELSE Thrown("YAMLParseError", current)
                  ELSE IF EndsWith(arg.path, ".json")
                  THEN IF file.parses THEN ValidateAndAssign(current, file.data)
                       ELSE Thrown("SyntaxError", current)
                  ELSE Thrown("Unsupported file format", current)
    ELSE IF arg.type = "object"
    THEN ValidateAndAssign(current, arg.data)
    ELSE Thrown("Unsupported profile type", current)

NoCall == [method |-> "new", argument |-> NoArgument, outcome |-> "returned", error |-> ""]
\* the constructor has returned: it calls loadProfile on a truthy argument
InitLoader ==
    /\ holder \in {"TanzoSimulator", "TanzoExporter"}
    /\ \E arg \in LoadArguments :
          /\ arg.truthy => LoadProfile(NoProfile, arg).outcome = "returned"
          /\ held = IF arg.truthy THEN LoadProfile(NoProfile, arg).profile
                    ELSE NoProfile
          /\ loadedOnce = arg.truthy
          /\ lastCall = [NoCall EXCEPT !.argument = arg]
    /\ loadCalls = 0
    /\ SampleIdle
    /\ SimIdle
    /\ StatIdle
    /\ SeedIdle
    /\ ValidIdle
    /\ IndexIdle
    /\ ModIdle
    /\ LcgIdle
    /\ ResIdle
    /\ ScenIdle
    /\ ExpIdle

LoadProfileCall ==
    /\ loadCalls < MaxCalls
    /\ \E arg \in LoadArguments :
          LET call == LoadProfile(held, arg)
          IN  /\ held' = call.profile
              /\ loadedOnce' = (loadedOnce \/ call.outcome = "returned")
              /\ lastCall' = [method |-> "loadProfile", argument |-> arg,
                              outcome |-> call.outcome, error |-> call.error]
    /\ loadCalls' = loadCalls + 1
    /\ UNCHANGED holder
    /\ UNCHANGED <<sampleVars, simVars, statVars, seedVars, validVars>>
    /\ UNCHANGED <<indexVars, modVars, lcgVars, resVars, scenVars, expVars>>

\* a method that starts with if (!this.profile) throw new Error(...)
Guarded(method, argument) ==
    /\ loadCalls < MaxCalls
    /\ lastCall' = IF ProfileMissing(held)
                   THEN [method |-> method, argument |-> argument, outcome |-> "threw",
                         error |-> "No profile has been loaded."]
                   ELSE [method |-> method, argument |-> argument,
                         outcome |-> "returned", error |-> ""]
    /\ loadCalls' = loadCalls + 1
    /\ UNCHANGED <<holder, held, loadedOnce>>
    /\ UNCHANGED <<sampleVars, simVars, statVars, seedVars, validVars>>
    /\ UNCHANGED <<indexVars, modVars, lcgVars, resVars, scenVars, expVars>>

RunSimulationCall ==
    /\ holder = "TanzoSimulator"
    /\ Guarded("runSimulation", NoArgument)

\* getSummary() runs the guard and then runSimulation
GetSummaryCall ==
    /\ holder = "TanzoSimulator"
    /\ Guarded("getSummary", NoArgument)

\* getSummary(simulationResults) formats the results it was given
GetSummaryOfCall ==
    /\ holder = "TanzoSimulator"
    /\ loadCalls < MaxCalls
    /\ lastCall' = [method |-> "getSummary", argument |-> ObjectArgument(NullData),
                    outcome |-> "returned", error |-> ""]
    /\ loadCalls' = loadCalls + 1
    /\ UNCHANGED <<holder, held, loadedOnce>>
    /\ UNCHANGED <<sampleVars, simVars, statVars, seedVars, validVars>>
    /\ UNCHANGED <<indexVars, modVars, lcgVars, resVars, scenVars, expVars>>

ExportJsonCall ==
    /\ holder = "TanzoExporter"
    /\ Guarded("exportJson", NoArgument)

ExportYamlCall ==
    /\ holder = "TanzoExporter"
    /\ Guarded("exportYaml", NoArgument)

ExportShorthandCall ==
    /\ holder = "TanzoExporter"
    /\ Guarded("exportShorthand", NoArgument)

NextLoader ==
    \/ LoadProfileCall
    \/ RunSimulationCall
    \/ GetSummaryCall
    \/ GetSummaryOfCall
    \/ ExportJsonCall
    \/ ExportYamlCall
    \/ ExportShorthandCall

SpecLoader == InitLoader /\ [][NextLoader]_vars

\* ------------------ validateDocument, parseDocument, runSimulation (index.ts)

\* a document: the keys it has, its version and its profile; a profile is an
\* object with a name and archetypes, or a value of another type
IndexArchetype(type, attributes, weight, traits) ==
    [type |-> type, name |-> "", attributes |-> attributes, weight |-> weight,
     traits |-> traits]
IndexProfile(type, name, archetypes) ==
    [type |-> type, name |-> name, archetypes |-> archetypes]
IndexDocument(keys, version, p) == [keys |-> keys, version |-> version, profile |-> p]

\* validate(document) of the compiled tanzo-schema.json: the first error found
ValidateDocument(doc) ==
    IF "version" \notin doc.keys THEN <<": must have required property 'version'">>
    ELSE IF "profile" \notin doc.keys THEN <<": must have required property 'profile'">>
    ELSE IF doc.version # "0.1.0"
    THEN <<"/version: must be equal to one of the allowed values">>
    ELSE IF doc.profile.type # "object" THEN <<"/profile: must be object">>
    ELSE IF ~SchemaValid(doc.profile.archetypes) THEN <<"/profile/archetypes">>
    ELSE <<>>

\* tanzoDocumentSchema.parse(document) succeeds
ZodDocument(doc) ==
    /\ "profile" \in doc.keys
    /\ doc.profile.type = "object"
    /\ doc.profile.name # ""
    /\ Len(doc.profile.archetypes) >= 1
    /\ \A i \in 1..Len(doc.profile.archetypes) :
          LET archetype == doc.profile.archetypes[i]
          IN  /\ archetype.type \in {"digital", "physical", "social", "emotional",
                                     "cognitive"}
              /\ archetype.weight >= 0 /\ archetype.weight <= Unit
              /\ \A j \in 1..Len(archetype.traits) :
                    /\ archetype.traits[j].name # ""
                    /\ archetype.traits[j].value >= 0
                    /\ archetype.traits[j].value <= Unit
                    /\ archetype.traits[j].variance >= 0
                    /\ archetype.traits[j].variance <= Unit

IndexThrown(error) == [outcome |-> "threw", error |-> error, results |-> <<>>, computed |-> 0]

ParseDocument(doc) ==
    IF Len(ValidateDocument(doc)) > 0 THEN IndexThrown("Invalid TanzoLang document")
    ELSE IF ~ZodDocument(doc) THEN IndexThrown("ZodError")
    ELSE [outcome |-> "returned", error |-> "", results |-> <<>>, computed |-> 0]

\* trait.value + (six outputs of Math.random() - 3) * variance, clamped
IndexTraitValue(trait, u) ==
    Clamp(FAdd(trait.value,
               FMul(FSub(FAdd(FAdd(FAdd(FAdd(FAdd(u, u), u), u), u), u), 3 * Unit),
                    VarianceOrDefault(trait.variance))))

\* the mean and standard deviation of one trait over the iterations
IndexTraitStats(trait, n, u) ==
    LET values == [i \in 1..n |-> IndexTraitValue(trait, u)]
        mean == XDiv(SumNumbers(values, 0), n * Unit)
    IN  [mean |-> mean,
         stdDev |-> IF mean.isNaN THEN NaN
                    ELSE Fin(FSqrt(FDiv(SumNumbers(
                             [i \in 1..n |->
                                 FMul(FSub(values[i], mean.v), FSub(values[i], mean.v))], 0),
                             n * Unit)))]

\* the loop over the traits of one archetype from trait j on
RECURSIVE IndexTraits(_, _, _, _, _)
IndexTraits(traits, j, n, u, acc) ==
    IF j > Len(traits) THEN acc
    ELSE IndexTraits(traits, j + 1, n, u,
             Put(acc, traits[j].name, IndexTraitStats(traits[j], n, u)))

\* the loop over the archetypes from archetype i on: results are keyed by type
RECURSIVE IndexArchetypes(_, _, _, _, _)
IndexArchetypes(archetypes, i, n, u, acc) ==
    IF i > Len(archetypes) THEN acc
    ELSE IndexArchetypes(archetypes, i + 1, n, u,
             [results |-> Put(acc.results, archetypes[i].type,
                              [weight |-> archetypes[i].weight,
                               traits |-> IndexTraits(archetypes[i].traits, 1, n,
                                                      u, <<>>)]),
              computed |-> acc.computed + n * Len(archetypes[i].traits)])

\* runSimulation past its first statement, on tanzoDoc
SimulateDocument(doc, n, u) ==
    IF doc.profile.type # "object" THEN IndexThrown("TypeError")
    ELSE LET all == IndexArchetypes(doc.profile.archetypes, 1, n, u,
                                    [results |-> <<>>, computed |-> 0])
         IN  [outcome |-> "returned", error |-> "", results |-> all.results,
              computed |-> all.computed]

\* 'profile' in document ? document : parseDocument(document), then the
\* simulation
RunSimulation(doc, n, u) ==
    IF "profile" \in doc.keys THEN SimulateDocument(doc, n, u)
    ELSE IF ParseDocument(doc).outcome = "threw" THEN ParseDocument(doc)
    ELSE SimulateDocument(doc, n, u)

\* the documents the calls are tried on
IndexTraitLists == {<<>>, <<Trait("t", Half, 0)>>, <<Trait("t", 2 * Unit, Half)>>}
IndexArchetypeLists ==
    {<<>>}
    \cup {<<IndexArchetype(type, attributes, Half, traits)>> :
            type \in {"digital", "hybrid", "social"},
            attributes \in {<<>>, <<Attr("x", Num(Unit))>>},
            traits \in IndexTraitLists}
IndexDocuments ==
    {IndexDocument(keys, version, IndexProfile("object", "p", archetypes)) :
        keys \in SUBSET {"version", "profile"}, version \in {"0.1.0", "1.0"},
        archetypes \in IndexArchetypeLists}
    \cup {IndexDocument({"version", "profile"}, "0.1.0", IndexProfile("number", "", <<>>))}

InitIndex ==
    /\ indexDocument \in IndexDocuments
    /\ indexIterations \in 0..MaxIter
    /\ indexDraw \in SimDraws
    /\ indexCall = <<>>
    /\ indexpc = "ready"
    /\ SampleIdle
    /\ SimIdle
    /\ StatIdle
    /\ SeedIdle
    /\ ValidIdle
    /\ LoadIdle
    /\ ModIdle
    /\ LcgIdle
    /\ ResIdle
    /\ ScenIdle
    /\ ExpIdle

\* the call on a document with a profile key: parseDocument is not called
RunSimulationUnparsed ==
    /\ indexpc = "ready"
    /\ "profile" \in indexDocument.keys
    /\ indexCall' = RunSimulation(indexDocument, indexIterations, indexDraw)
    /\ indexpc' = "done"
    /\ UNCHANGED <<indexDocument, indexIterations, indexDraw>>
    /\ UNCHANGED <<sampleVars, simVars, statVars, seedVars, validVars>>
    /\ UNCHANGED <<loadVars, modVars, lcgVars, resVars, scenVars, expVars>>

\* the call on a document without a profile key: parseDocument is called
RunSimulationParsed ==
    /\ indexpc = "ready"
    /\ "profile" \notin indexDocument.keys
    /\ indexCall' = RunSimulation(indexDocument, indexIterations, indexDraw)
    /\ indexpc' = "done"
    /\ UNCHANGED <<indexDocument, indexIterations, indexDraw>>
    /\ UNCHANGED <<sampleVars, simVars, statVars, seedVars, validVars>>
    /\ UNCHANGED <<loadVars, modVars, lcgVars, resVars, scenVars, expVars>>

NextIndex ==
    \/ RunSimulationUnparsed
    \/ RunSimulationParsed

SpecIndex == InitIndex /\ [][NextIndex]_vars

\* ------------------- applyEffect, simulateProfile with modifiers (simulator.ts)

NoCondition == [given |-> FALSE, attribute |-> "", operator |-> "", value |-> 0]
Condition(attribute, operator, value) ==
    [given |-> TRUE, attribute |-> attribute, operator |-> operator, value |-> value]
Effect(target, operation, value, condition) ==
    [target |-> target, operation |-> operation, value |-> value,
     condition |-> condition]

\* key in obj, for an object literal with the own properties obj
HasProperty(obj, key) == key \in DOMAIN obj \/ key \in ProtoKeys

\* a < b and a <= b on two values: false unless both are Numbers other than
\* NaN (a function or an object converts to NaN)
JsLess(a, b) == a.t = "number" /\ b.t = "number" /\ a.fin /\ b.fin /\ a.v < b.v
JsLessEq(a, b) == a.t = "number" /\ b.t = "number" /\ a.fin /\ b.fin /\ a.v <= b.v
\* a === b where b is a finite Number
StrictEqual(a, b) == a.t = "number" /\ a.fin /\ a.v = b.v

\* the condition part of applyEffect: TRUE when it does not return
ConditionPasses(condition, attributeValues) ==
    IF ~condition.given THEN TRUE
    ELSE IF ~HasProperty(attributeValues, condition.attribute) THEN FALSE
    ELSE LET attrVal == GetProperty(attributeValues, condition.attribute)
             condVal == Num(condition.value)
         IN  CASE condition.operator = "eq" -> StrictEqual(attrVal, condVal)
               [] condition.operator = "neq" -> ~StrictEqual(attrVal, condVal)
               [] condition.operator = "gt" -> ~JsLessEq(attrVal, condVal)
               [] condition.operator = "lt" -> ~JsLessEq(condVal, attrVal)
               [] condition.operator = "gte" -> ~JsLess(attrVal, condVal)
               [] condition.operator = "lte" -> ~JsLess(condVal, attrVal)
               [] OTHER -> TRUE

\* the switch on effect.operation: newVal from current and value
Operate(operation, current, value) ==
    LET numeric == current.t = "number" /\ current.fin
    IN  CASE operation = "add" ->
                IF numeric THEN Num(FAdd(current.v, value))
                ELSE IF current.t = "number" THEN NonFinite
                ELSE Str(current.v \o NumberToString(value))
          [] operation = "multiply" ->
                IF numeric THEN Num(FMul(current.v, value)) ELSE NonFinite
          [] operation = "set" -> Num(value)
          [] operation = "min" -> IF numeric THEN Num(Min(current.v, value)) ELSE NonFinite
          [] operation = "max" -> IF numeric THEN Num(Max(current.v, value)) ELSE NonFinite
          [] OTHER -> current

\* Math.max(0.0, Math.min(1.0, newVal)): NaN for NaN, for a function and for
\* a string that is no numeric literal
ClampValue(newVal) ==
    IF newVal.t = "number" /\ newVal.fin THEN Num(Clamp(newVal.v)) ELSE NonFinite

\* x || 0.0
OrZeroValue(x) ==
    IF x.t = "undefined" \/ (x.t = "number" /\ (~x.fin \/ x.v = 0)) THEN Num(0) ELSE x

\* applyEffect(effect, state, archetypesByName): the state it leaves
ApplyEffect(effect, state, archetypesByName) ==
    IF ~ConditionPasses(effect.condition, state.attributeValues) THEN state
    ELSE IF HasProperty(archetypesByName, effect.target)
    THEN [state EXCEPT !.archetypeValues =
             SetProperty(@, effect.target,
                 ClampValue(Operate(effect.operation,
                                    OrZeroValue(GetProperty(@, effect.target)),
                                    effect.value)))]
    ELSE IF HasProperty(state.attributeValues, effect.target)
    THEN [state EXCEPT !.attributeValues =
             SetProperty(@, effect.target,
                 ClampValue(Operate(effect.operation, GetProperty(@, effect.target),
                                    effect.value)))]
    ELSE state

\* the modifiers of the profile by position: level "profile" or the number of
\* the archetype, and the index in the list
Position(arch, index) == [arch |-> arch, index |-> index]
ModifierAt(p, at) ==
    IF at.arch = 0 THEN p.modifiers[at.index]
    ELSE p.archetypes[at.arch].modifiers[at.index]
RECURSIVE ArchetypePositions(_, _)
ArchetypePositions(p, i) ==
    IF i > Len(p.archetypes) THEN <<>>
    ELSE [j \in 1..Len(p.archetypes[i].modifiers) |-> Position(i, j)]
         \o ArchetypePositions(p, i + 1)
ProfilePositions(p) == [j \in 1..Len(p.modifiers) |-> Position(0, j)]

\* the two loops in the other order
ArchetypeModifiersFirst(p) == ArchetypePositions(p, 1) \o ProfilePositions(p)

\* the order in which the two loops of simulateProfile reach the modifiers
ModifierOrder(p) == ProfilePositions(p) \o ArchetypePositions(p, 1)

\* the initialisation loops: archetypesByName, archetypeValues and
\* attributeValues, an attribute with a variance being randomized
RECURSIVE InitializeValues(_, _, _, _, _)
InitializeValues(archetypes, i, randomize, native, acc) ==
    IF i > Len(archetypes) THEN acc
    ELSE InitializeValues(archetypes, i + 1, randomize, native,
             [archetypeValues |-> SetProperty(acc.archetypeValues, archetypes[i].name,
                                              Num(archetypes[i].weight)),
              attributes |-> AttributeValues(archetypes[i].attributes, 1, randomize,
                                             NativeRandom, native, acc.attributes)])

ArchetypesByName(p) ==
    [name \in {p.archetypes[i].name : i \in 1..Len(p.archetypes)} \ {"__proto__"} |-> TRUE]

InitialState(p, randomize, native) ==
    LET init == InitializeValues(p.archetypes, 1, randomize, native,
                    [archetypeValues |-> <<>>,
                     attributes |-> [values |-> <<>>, used |-> 0, log |-> <<>>]])
    IN  [archetypeValues |-> init.archetypeValues,
         attributeValues |-> [k \in DOMAIN init.attributes.values |->
                                 Num(init.attributes.values[k])],
         activeModifiers |-> <<>>]

\* { ...state.attributeValues, ...state.archetypeValues }
MergeResults(state) ==
    [k \in DOMAIN state.attributeValues \cup DOMAIN state.archetypeValues |->
        IF k \in DOMAIN state.archetypeValues THEN state.archetypeValues[k]
        ELSE state.attributeValues[k]]

\* the profiles the calls are tried on: two archetypes, one attribute each
ModAttribute(name, value, variance) == Trait(name, value, variance)
ModArchetype(name, weight, attributes, modifiers) ==
    [name |-> name, weight |-> weight, attributes |-> attributes,
     modifiers |-> modifiers]
ModProfile(archetypes, modifiers) == [archetypes |-> archetypes, modifiers |-> modifiers]
Modifier(effect) == [effect |-> effect]
ProfileModifiers ==
    {Modifier(Effect("calm", "add", (3 * Unit) \div 4, NoCondition)),
     Modifier(Effect("sage", "multiply", 2 * Unit, Condition("calm", "gt", (3 * Unit) \div 4))),
     Modifier(Effect("calm", "set", 0 - Unit, Condition("calm", "lte", Half))),
     Modifier(Effect("toString", "add", Unit \div 4, NoCondition)),
     Modifier(Effect("sage", "min", Unit \div 4, Condition("bold", "neq", Half))),
     Modifier(Effect("bold", "max", 2 * Unit, Condition("calm", "eq", Unit))),
     Modifier(Effect("nobody", "set", Half, Condition("calm", "lt", Unit))),
     Modifier(Effect("scout", "add", Unit, Condition("toString", "gte", 0)))}
ArchetypeModifiers ==
    {Modifier(Effect("calm", "multiply", Half, Condition("calm", "gte", Unit))),
     Modifier(Effect("bold", "add", Unit \div 4, Condition("sage", "gt", 0))),
     Modifier(Effect("scout", "set", Unit \div 4, Condition("bold", "gt", Half)))}
ModifierLists(pool, n) == UNION {[1..k -> pool] : k \in 0..n}
ModProfiles ==
    {ModProfile(<<ModArchetype("sage", Half, <<ModAttribute("calm", Half, 0)>>, first),
                  ModArchetype("scout", Unit \div 4,
                               <<ModAttribute("bold", Half, Unit \div 4)>>, second)>>,
                global) :
        first \in ModifierLists(ArchetypeModifiers, 1),
        second \in ModifierLists(ArchetypeModifiers, 1),
        global \in ModifierLists(ProfileModifiers, 2)}

InitModifiers ==
    /\ modProfile \in ModProfiles
    /\ modRandomize \in BOOLEAN
    /\ modNative \in {<<Half, Unit \div 8>>}
    /\ modState = <<>>
    /\ modLog = <<>>
    /\ modResult = <<>>
    /\ modpc = "start"
    /\ SampleIdle
    /\ SimIdle
    /\ StatIdle
    /\ SeedIdle
    /\ ValidIdle
    /\ LoadIdle
    /\ IndexIdle
    /\ LcgIdle
    /\ ResIdle
    /\ ScenIdle
    /\ ExpIdle

\* the state is initialised from the weights and the attribute values
ModInitialize ==
    /\ modpc = "start"
    /\ modState' = InitialState(modProfile, modRandomize, modNative)
    /\ modpc' = "modifiers"
    /\ UNCHANGED <<modProfile, modRandomize, modNative, modLog, modResult>>
    /\ UNCHANGED <<sampleVars, simVars, statVars, seedVars, validVars>>
    /\ UNCHANGED <<loadVars, indexVars, lcgVars, resVars, scenVars, expVars>>

\* one turn of the modifier loops: applyEffect, then activeModifiers.push
ModApply ==
    /\ modpc = "modifiers"
    /\ Len(modState.activeModifiers) < Len(ModifierOrder(modProfile))
    /\ LET at == ModifierOrder(modProfile)[Len(modState.activeModifiers) + 1]
           effect == ModifierAt(modProfile, at).effect
           after == ApplyEffect(effect, modState, ArchetypesByName(modProfile))
       IN  /\ modState' = [after EXCEPT !.activeModifiers = Append(@, at)]
           /\ modLog' = Append(modLog, [effect |-> effect, seen |-> modState,
                                        left |-> after])
    /\ UNCHANGED <<modProfile, modRandomize, modNative, modResult, modpc>>
    /\ UNCHANGED <<sampleVars, simVars, statVars, seedVars, validVars>>
    /\ UNCHANGED <<loadVars, indexVars, lcgVars, resVars, scenVars, expVars>>

\* the loops have ended: the merged values are returned
ModReturn ==
    /\ modpc = "modifiers"
    /\ Len(modState.activeModifiers) = Len(ModifierOrder(modProfile))
    /\ modResult' = MergeResults(modState)
    /\ modpc' = "returned"
    /\ UNCHANGED <<modProfile, modRandomize, modNative, modState, modLog>>
    /\ UNCHANGED <<sampleVars, simVars, statVars, seedVars, validVars>>
    /\ UNCHANGED <<loadVars, indexVars, lcgVars, resVars, scenVars, expVars>>

NextModifiers ==
    \/ ModInitialize
    \/ ModApply
    \/ ModReturn

SpecModifiers == InitModifiers /\ [][NextModifiers]_vars

\* ----------------------------- the seeded generator of simulateProfile (utils.ts)

\* the seeds the generator is tried on: the small ones of either sign and the
\* ends of the range of its state
LcgSeeds == ((0 - MaxSeed)..MaxSeed) \cup {LcgModulus - 1, 1 - LcgModulus}

\* rng = function() {...} has been assigned: its variable is the seed argument
InitLcg ==
    /\ lcgSeed \in LcgSeeds
    /\ lcgState = lcgSeed
    /\ lcgOutputs = <<>>
    /\ SampleIdle
    /\ SimIdle
    /\ StatIdle
    /\ SeedIdle
    /\ ValidIdle
    /\ LoadIdle
    /\ IndexIdle
    /\ ModIdle
    /\ ResIdle
    /\ ScenIdle
    /\ ExpIdle

\* one call of rng: seed = (seed * 9301 + 49297) % 233280; return seed / 233280
RngCall ==
    /\ Len(lcgOutputs) < MaxCalls
    /\ lcgState' = LcgNext(lcgState)
    /\ lcgOutputs' = Append(lcgOutputs, LcgNext(lcgState))
    /\ UNCHANGED lcgSeed
    /\ UNCHANGED <<sampleVars, simVars, statVars, seedVars, validVars>>
    /\ UNCHANGED <<loadVars, indexVars, modVars, resVars, scenVars, expVars>>

NextLcg ==
    \/ RngCall

SpecLcg == InitLcg /\ [][NextLcg]_vars

\* ------------------------- SimulationResult, simulateProfile (simulation.ts)

Capability(name, power) == [name |-> name, power |-> power]
ResultProfile(baseline, variance, capabilities) ==
    [baseline |-> baseline, variance |-> variance, capabilities |-> capabilities]

\* the constructor's loop: capabilityActivations[capability.name] = 0
RECURSIVE InitialActivations(_, _, _)
InitialActivations(capabilities, i, acc) ==
    IF i > Len(capabilities) THEN acc
    ELSE InitialActivations(capabilities, i + 1,
                            SetProperty(acc, capabilities[i].name, Num(0)))

NewSimulationResult(p) ==
    [iterations |-> 0, energyValues |-> <<>>, resilienceValues |-> <<>>,
     adaptabilityValues |-> <<>>,
     capabilityActivations |-> InitialActivations(p.capabilities, 1, <<>>)]

\* x += 1 on a property: a function or an object is concatenated with "1"
PlusOne(x) == IF x.t = "number" THEN Num(FAdd(x.v, Unit)) ELSE Str(x.v \o "1")

\* addIteration(energy, resilience, adaptability, activatedCapability)
AddIteration(result, energy, resilience, adaptability, activatedCapability) ==
    [iterations |-> result.iterations + 1,
     energyValues |-> Append(result.energyValues, energy),
     resilienceValues |-> Append(result.resilienceValues, resilience),
     adaptabilityValues |-> Append(result.adaptabilityValues, adaptability),
     capabilityActivations |->
        IF /\ activatedCapability.t = "string"
           /\ activatedCapability.v # ""
           /\ GetProperty(result.capabilityActivations, activatedCapability.v).t
                 # "undefined"
        THEN SetProperty(result.capabilityActivations, activatedCapability.v,
                 PlusOne(GetProperty(result.capabilityActivations,
                                     activatedCapability.v)))
        ELSE result.capabilityActivations]

\* applyVariance(baseValue, variance) on the output u of Math.random()
ApplyVariance(baseValue, variance, u) ==
    IF variance <= 0 THEN baseValue
    ELSE Max(0, Min(100 * Unit,
                    FAdd(baseValue, FMul(FSub(FMul(u, 2 * Unit), Unit), variance))))

\* shouldActivateCapability(power) on the output u of Math.random()
ShouldActivateCapability(power, u) == u < FDiv(power * Unit, 10 * Unit)

\* the loop over the capabilities from capability i on: the first one whose
\* check succeeds, or undefined
RECURSIVE ActivatedCapability(_, _, _)
ActivatedCapability(capabilities, i, u) ==
    IF i > Len(capabilities) THEN Undefined
    ELSE IF ShouldActivateCapability(capabilities[i].power, u)
    THEN Str(capabilities[i].name)
    ELSE ActivatedCapability(capabilities, i + 1, u)

\* one turn of the loop of simulateProfile, every Math.random() giving u
SimulateIteration(p, result, u) ==
    AddIteration(result,
                 ApplyVariance(p.baseline, p.variance, u),
                 ApplyVariance(p.baseline, p.variance, u),
                 ApplyVariance(p.baseline, p.variance, u),
                 ActivatedCapability(p.capabilities, 1, u))

\* the profiles and the arguments the calls are tried on
ResultProfiles ==
    {ResultProfile(2 * Unit, variance, capabilities) :
        variance \in {0, Unit},
        capabilities \in {<<>>, <<Capability("plan", 5), Capability("leap", 9)>>,
                          <<Capability("plan", 0), Capability("plan", 9)>>}}
ActivatedNames ==
    {Undefined, Str(""), Str("plan"), Str("leap"), Str("other"), Str("toString")}

InitResult ==
    /\ resProfile \in ResultProfiles
    /\ resResult = NewSimulationResult(resProfile)
    /\ resLastCall = "new"
    /\ SampleIdle
    /\ SimIdle
    /\ StatIdle
    /\ SeedIdle
    /\ ValidIdle
    /\ LoadIdle
    /\ IndexIdle
    /\ ModIdle
    /\ LcgIdle
    /\ ScenIdle
    /\ ExpIdle

\* a call of addIteration from outside simulateProfile
AddIterationCall ==
    /\ resResult.iterations < MaxCalls
    /\ \E energy \in {0, Unit}, activatedCapability \in ActivatedNames :
          resResult' = AddIteration(resResult, energy, Unit, 2 * Unit,
                                    activatedCapability)
    /\ resLastCall' = "addIteration"
    /\ UNCHANGED resProfile
    /\ UNCHANGED <<sampleVars, simVars, statVars, seedVars, validVars>>
    /\ UNCHANGED <<loadVars, indexVars, modVars, lcgVars, scenVars, expVars>>

\* one turn of the loop of simulateProfile on the result
SimulateIterationCall ==
    /\ resResult.iterations < MaxCalls
    /\ \E u \in SimDraws : resResult' = SimulateIteration(resProfile, resResult, u)
    /\ resLastCall' = "simulate"
    /\ UNCHANGED resProfile
    /\ UNCHANGED <<sampleVars, simVars, statVars, seedVars, validVars>>
    /\ UNCHANGED <<loadVars, indexVars, modVars, lcgVars, scenVars, expVars>>

NextResult ==
    \/ AddIterationCall
    \/ SimulateIterationCall

SpecResult == InitResult /\ [][NextResult]_vars

\* ------------ TanzoSimulator.runSimulation, summarizeSimulation (simulator.ts)

\* the outcomes of simulateDecision
Outcomes == {"conservative", "balanced", "creative"}

\* a string as the list of the parts its underscores separate
RECURSIVE JoinParts(_)
JoinParts(parts) ==
    IF Len(parts) = 1 THEN parts[1] ELSE parts[1] \o "_" \o JoinParts(Tail(parts))

\* `${scenario}_${outcome}`: an outcome holds no underscore
DecisionKey(scenario, outcome) == Append(scenario, outcome)

\* outcomeKey.split('_', 2): the first two parts, the others are dropped
SplitKey(key) == SubSeq(key, 1, Min(2, Len(key)))

\* decisionOutcomes[key] = (decisionOutcomes[key] || 0) + 1
CountDecision(entries, key) ==
    IF \E k \in 1..Len(entries) : entries[k].key = key
    THEN [k \in 1..Len(entries) |->
             IF entries[k].key = key THEN [entries[k] EXCEPT !.count = @ + 1]
             ELSE entries[k]]
    ELSE Append(entries, [key |-> key, count |-> 1])

\* the loop over the scenarios in one iteration, from scenario i on; chosen[i]
\* is the outcome simulateDecision returns for scenario i
RECURSIVE DecideScenarios(_, _, _, _)
DecideScenarios(names, i, chosen, entries) ==
    IF i > Len(names) THEN entries
    ELSE DecideScenarios(names, i + 1, chosen,
                         CountDecision(entries, DecisionKey(names[i], chosen[i])))

\* the grouping loop of summarizeSimulation from entry k on: a scenario found
\* under an inherited name gets no entry of its own in scenarioOutcomes
RECURSIVE GroupOutcomes(_, _, _)
GroupOutcomes(entries, k, acc) ==
    IF k > Len(entries) THEN acc
    ELSE LET pair == SplitKey(entries[k].key)
             scenario == pair[1]
             outcome == pair[2]
         IN  GroupOutcomes(entries, k + 1,
                 IF scenario \in ProtoKeys THEN acc
                 ELSE Put(acc, scenario,
                          Put(IF scenario \in DOMAIN acc THEN acc[scenario] ELSE <<>>,
                              outcome, entries[k].count)))

\* the scenario lists the calls are tried on
ScenarioNames ==
    {<<"work">>, <<"crisis">>, <<"high", "stress">>, <<"work", "home">>, <<"">>}
ScenarioLists ==
    {<<s>> : s \in ScenarioNames} \cup {<<s, t>> : s \in ScenarioNames, t \in ScenarioNames}

InitScenario ==
    /\ scenarios \in {names \in ScenarioLists : Len(names) = 1 \/ names[1] # names[2]}
    /\ scenIterations \in 0..MaxIter
    /\ decisions = <<>>
    /\ decisionOutcomes = <<>>
    /\ scenarioOutcomes = <<>>
    /\ scenpc = "loop"
    /\ SampleIdle
    /\ SimIdle
    /\ StatIdle
    /\ SeedIdle
    /\ ValidIdle
    /\ LoadIdle
    /\ IndexIdle
    /\ ModIdle
    /\ LcgIdle
    /\ ResIdle
    /\ ExpIdle

\* one iteration of the loop of runSimulation: a decision for every scenario
ScenarioIteration ==
    /\ scenpc = "loop"
    /\ Len(decisions) < scenIterations * Len(scenarios)
    /\ \E chosen \in [1..Len(scenarios) -> Outcomes] :
          /\ decisionOutcomes' = DecideScenarios(scenarios, 1, chosen, decisionOutcomes)
          /\ decisions' = decisions \o
                 [i \in 1..Len(scenarios) |->
                     [scenario |-> scenarios[i], outcome |-> chosen[i]]]
    /\ UNCHANGED <<scenarios, scenIterations, scenarioOutcomes, scenpc>>
    /\ UNCHANGED <<sampleVars, simVars, statVars, seedVars, validVars>>
    /\ UNCHANGED <<loadVars, indexVars, modVars, lcgVars, resVars, expVars>>

\* the loop has ended and runSimulation returns its result
ScenarioReturn ==
    /\ scenpc = "loop"
    /\ Len(decisions) = scenIterations * Len(scenarios)
    /\ scenpc' = "returned"
    /\ UNCHANGED <<scenarios, scenIterations, decisions, decisionOutcomes,
                   scenarioOutcomes>>
    /\ UNCHANGED <<sampleVars, simVars, statVars, seedVars, validVars>>
    /\ UNCHANGED <<loadVars, indexVars, modVars, lcgVars, resVars, expVars>>

\* summarizeSimulation(result) groups the decision outcomes by scenario
SummarizeSimulationCall ==
    /\ scenpc = "returned"
    /\ scenarioOutcomes' = GroupOutcomes(decisionOutcomes, 1, <<>>)
    /\ scenpc' = "summarized"
    /\ UNCHANGED <<scenarios, scenIterations, decisions, decisionOutcomes>>
    /\ UNCHANGED <<sampleVars, simVars, statVars, seedVars, validVars>>
    /\ UNCHANGED <<loadVars, indexVars, modVars, lcgVars, resVars, expVars>>

NextScenario ==
    \/ ScenarioIteration
    \/ ScenarioReturn
    \/ SummarizeSimulationCall

SpecScenario == InitScenario /\ [][NextScenario]_vars

\* ------------------------------------------------- exportShorthand (utils.ts)

Rule(rule, priority) == [rule |-> rule, priority |-> priority]
ExportProfile(identity, traits, rules) ==
    [identity |-> identity, traits |-> traits, behavioral_rules |-> rules]

\* xs.sort((a, b) => key(b) - key(a)), a stable sort: x is put after the
\* elements of the sorted list whose key is not below its own
RECURSIVE InsertDescending(_, _, _)
InsertDescending(sorted, x, key) ==
    IF sorted = <<>> THEN <<x>>
    ELSE IF key[Head(sorted)] >= key[x]
    THEN <<Head(sorted)>> \o InsertDescending(Tail(sorted), x, key)
    ELSE <<x>> \o sorted
RECURSIVE SortDescending(_, _)
SortDescending(xs, key) ==
    IF xs = <<>> THEN <<>>
    ELSE InsertDescending(SortDescending(SubSeq(xs, 1, Len(xs) - 1), key),
                          xs[Len(xs)], key)
\* xs.slice(0, n)
Slice(xs, n) == SubSeq(xs, 1, Min(n, Len(xs)))

\* Object.entries(archetype.traits).sort(...).slice(0, 3): the entries are a
\* new array
TopTraits(traits) ==
    Slice(SortDescending(traits, [t \in {traits[i] : i \in 1..Len(traits)} |-> t.value]), 3)

\* profile.behavioral_rules.sort(...): the array of the profile is sorted
SortedRules(rules) ==
    SortDescending(rules, [r \in {rules[i] : i \in 1..Len(rules)} |-> r.priority])

\* exportShorthand(profile): the parts of the string returned and the profile
\* as the call leaves it
ExportShorthand(p) ==
    [parts |-> [name |-> p.identity.name,
                age |-> p.identity.age,
                job |-> p.identity.occupation,
                traits |-> [i \in 1..Len(TopTraits(p.traits)) |->
                               <<TopTraits(p.traits)[i].name,
                                 TopTraits(p.traits)[i].value>>],
                rules |-> [i \in 1..Len(Slice(SortedRules(p.behavioral_rules), 2)) |->
                              Slice(SortedRules(p.behavioral_rules), 2)[i].rule]],
     profile |-> [p EXCEPT !.behavioral_rules = SortedRules(p.behavioral_rules)]]

\* the profiles the calls are tried on: rule k is named after its place
RuleNames == <<"r1", "r2", "r3", "r4", "r5">>
RuleLists ==
    UNION {{[k \in 1..n |-> Rule(RuleNames[k], priorities[k])] :
               priorities \in [1..n -> 1..MaxNum]} : n \in 0..MaxLen}
ExportProfiles ==
    {ExportProfile([name |-> "Kai", age |-> 30, occupation |-> job], traits, rules) :
        job \in {"", "pilot"},
        traits \in {<<Trait("openness", Half, 0)>>,
                    <<Trait("openness", Unit \div 4, 0), Trait("focus", Half, 0),
                      Trait("humor", Half, 0), Trait("grit", Unit, 0)>>},
        rules \in RuleLists}

InitExport ==
    /\ expProfile \in ExportProfiles
    /\ expBefore = expProfile
    /\ expOutput = <<>>
    /\ expCalls = 0
    /\ SampleIdle
    /\ SimIdle
    /\ StatIdle
    /\ SeedIdle
    /\ ValidIdle
    /\ LoadIdle
    /\ IndexIdle
    /\ ModIdle
    /\ LcgIdle
    /\ ResIdle
    /\ ScenIdle

UtilsExportShorthandCall ==
    /\ expCalls < MaxCalls
    /\ expOutput' = ExportShorthand(expProfile).parts
    /\ expProfile' = ExportShorthand(expProfile).profile
    /\ expCalls' = expCalls + 1
    /\ UNCHANGED expBefore
    /\ UNCHANGED <<sampleVars, simVars, statVars, seedVars, validVars>>
    /\ UNCHANGED <<loadVars, indexVars, modVars, lcgVars, resVars, scenVars>>

NextExport ==
    \/ UtilsExportShorthandCall

SpecExport == InitExport /\ [][NextExport]_vars

\* ------------------------------------------------------------ claims

\* the prefix sums w[0]/sum + ... + w[i]/sum of the normalized weights
RECURSIVE PrefixSums(_, _, _)
PrefixSums(nw, acc, i) ==
    IF i > Len(nw) THEN acc
    ELSE PrefixSums(nw, Append(acc, XAdd(IF i = 1 THEN Fin(0) ELSE acc[i - 1], nw[i])),
                    i + 1)

\* the 0-based indices whose prefix sum is >= r
Covering(weights, r) ==
    LET ps == PrefixSums(NormalizedWeights(weights), <<>>, 1)
    IN  {i \in 0..(Len(weights) - 1) : ~ps[i + 1].isNaN /\ ps[i + 1].v >= r}

Least(S) == CHOOSE i \in S : \A j \in S : i <= j

\* C1: a Discrete distribution with as many values as weights and a positive
\* weight sum yields, for the draw r, values[i] for the smallest i whose prefix
\* sum of normalized weights is >= r.
C1_SmallestCoveringIndex ==
    (/\ spc = "returned"
     /\ dist.distribution = "discrete"
     /\ Len(dist.values) = Len(dist.weights)
     /\ TotalWeight(dist.weights, 0) > 0
     /\ Covering(dist.weights, draws[1]) # {})
    => sampled = dist.values[Least(Covering(dist.weights, draws[1])) + 1]

\* C8: a Uniform distribution with max > min yields, for the draw r, the value
\* min + r*(max-min), and that value v satisfies min <= v < max.
C8_UniformInRange ==
    (/\ spc = "returned"
     /\ dist.distribution = "uniform"
     /\ dist.max > dist.min)
    => /\ sampled = Num(UniformValue(dist, draws[1]))
       /\ dist.min <= sampled.v
       /\ sampled.v < dist.max

\* the distribution sampled by the call the entry e of sampleLog records
SampledDistribution(e) == profile[e.arch].attributes[e.attr].value

\* C2: when a Discrete distribution whose weights sum to 0 is sampled, the
\* sampling fails with a degenerate-weights error and so does the whole
\* simulateProfile call: no value comes back from the sampling.
C2_ZeroWeightsFail ==
    (\E k \in 1..Len(sampleLog) :
        /\ SampledDistribution(sampleLog[k]).distribution = "discrete"
        /\ TotalWeight(SampledDistribution(sampleLog[k]).weights, 0) = 0)
    => /\ simpc = "threw"
       /\ simError = "Degenerate weights"

\* C3: simulateProfile called with a trial count below 1 does not return a
\* summary: it fails with an invalid-trial-count error.
C3_TrialCountChecked ==
    iterations < 1 => /\ simpc # "returned"
                      /\ simpc = "threw" => simError = "Invalid trial count"

\* attribute j of archetype i is the last one written under its archetype
\* key and its attribute name
LastWriter(i, j) ==
    /\ \A i2 \in (i + 1)..Len(profile) :
          ArchetypeName(profile[i2]) # ArchetypeName(profile[i])
    /\ \A j2 \in (j + 1)..Len(profile[i].attributes) :
          profile[i].attributes[j2].name # profile[i].attributes[j].name

\* the (archetype, attribute) positions of the profile
Pairs == {p \in (1..Len(profile)) \X (1..MaxLen) : p[2] <= Len(profile[p[1]].attributes)}
AttributeAt(p) == profile[p[1]].attributes[p[2]]
SummaryEntry(p) == summary[ArchetypeName(profile[p[1]])][AttributeAt(p).name]
FixedNumeric(p) ==
    /\ ~IsDistribution(AttributeAt(p).value)
    /\ AttributeAt(p).value.t = "number"

\* entry is { fixed_value: v } and carries no statistics
IsFixedEntry(entry, v) ==
    /\ entry.kind = "fixed"
    /\ entry.fixed_value = v
    /\ entry.mean.t = "undefined"
    /\ entry.stdDev.t = "undefined"
    /\ entry.min.t = "undefined"
    /\ entry.max.t = "undefined"
    /\ entry.frequencies = <<>>

OwnLog(p) == SelectSeq(sampleLog, LAMBDA e : e.arch = p[1] /\ e.attr = p[2])
OwnSamples(p) == [k \in 1..Len(OwnLog(p)) |-> OwnLog(p)[k].value]
\* the number of attribute entries the summary holds
RECURSIVE EntryCount(_)
EntryCount(keys) ==
    IF keys = {} THEN 0
    ELSE LET key == CHOOSE k \in keys : TRUE
         IN  Cardinality(DOMAIN summary[key]) + EntryCount(keys \ {key})

\* C9: for every schema-valid profile and N >= 1 the summary holds one entry
\* for each (archetype, attribute) pair, and the entry of a distributed
\* attribute is the statistics of the N values sampled from its distribution.
C9_OwnEntries ==
    (simpc = "returned" /\ iterations >= 1) =>
        /\ EntryCount(DOMAIN summary) = Cardinality(Pairs)
        /\ \A p \in Pairs :
              IsDistribution(AttributeAt(p).value)
              => /\ Len(OwnSamples(p)) = iterations
                 /\ SummaryEntry(p) = CalculateStats(OwnSamples(p))

\* C5: two calls of the same simulation function with the same profile, the
\* same trial count, the same options and the same seed return the same
\* result, whatever calls ran before or between them.
C5_SeededCallsRepeat ==
    \A a \in returned : \A b \in returned :
        (a.call = b.call /\ Seeded(a.call)) => a.result = b.result

\* a call with a seed has been made twice, with another call before the
\* second one, and both results are on record
C5_SeededCallRepeated ==
    /\ again
    /\ \E a \in returned : Seeded(a.call) /\ a.call.seed.given
    /\ Cardinality(returned) >= 2

\* C6: a simulation call leaves in Math.random the function it found there.
C6_MathRandomRestored == [][mathRandom'.id = mathRandom.id]_vars

\* C7: every argument u1 passed to Math.log in a Box-Muller draw is > 0.
C7_LogArgumentPositive == minLogArg > 0

\* the labels of the group and the number of values rendered as a label
GroupLabels == {ToStr(group[i]) : i \in 1..Len(group)}
Occurrences(label) == Cardinality({i \in 1..Len(group) : ToStr(group[i]) = label})

\* C10: calculateStats returns numeric statistics exactly when every value is
\* a number; otherwise the group is categorical, the labels reported are the
\* String-rendered values of the group (so that their shares add up to 1) and
\* each label's frequency is occurrences(label)/count, a Number in (0,1].
C10_StatsByType ==
    stpc = "returned" =>
        /\ (stats.kind = "numeric") <=> AllNumbers(group)
        /\ ~AllNumbers(group) =>
              /\ stats.kind = "categorical"
              /\ DOMAIN stats.frequencies = GroupLabels
              /\ \A label \in GroupLabels :
                    /\ stats.frequencies[label] =
                           Num(FDiv(Occurrences(label) * Unit, Len(group) * Unit))
                    /\ stats.frequencies[label].v > 0
                    /\ stats.frequencies[label].v <= Unit

\* two JavaScript values are the same value
SameValue(a, b) == a.t = b.t /\ a.fin = b.fin /\ a.v = b.v
\* the attribute a sampleDistribution call of the log was made for
LoggedValue(e) == profile[e.arch].attributes[e.attr].value

\* C11: in every trial result the entry of an attribute with a fixed value is
\* that value, and no sampleDistribution call (hence no draw) was made for it.
C11_FixedPassedThrough ==
    \A k \in 1..Len(allResults) : \A p \in Pairs :
        ~IsDistribution(AttributeAt(p).value)
        => /\ SameValue(ResultValue(allResults[k], ArchetypeName(profile[p[1]]),
                                    AttributeAt(p).name),
                        AttributeAt(p).value)
           /\ \A m \in 1..Len(sampleLog) :
                 ~(sampleLog[m].arch = p[1] /\ sampleLog[m].attr = p[2])

\* the attributes of the profile that hold a distribution
Distributed == {p \in Pairs : IsDistribution(AttributeAt(p).value)}
\* call m of the log comes before call n in trial order, then profile order
Before(m, n) ==
    \/ sampleLog[m].trial < sampleLog[n].trial
    \/ /\ sampleLog[m].trial = sampleLog[n].trial
       /\ \/ sampleLog[m].arch < sampleLog[n].arch
          \/ /\ sampleLog[m].arch = sampleLog[n].arch
             /\ sampleLog[m].attr < sampleLog[n].attr

\* C12: the sampleDistribution calls of a run are made trial after trial and,
\* within a trial, in profile order, one for each attribute that holds a
\* distribution and none for the others; a run of N >= 1 trials that has
\* returned has made N*D calls.
C12_SampledOncePerTrial ==
    /\ \A m \in 1..Len(sampleLog) :
          /\ <<sampleLog[m].arch, sampleLog[m].attr>> \in Distributed
          /\ sampleLog[m].trial \in 1..iterations
          /\ \A n \in (m + 1)..Len(sampleLog) : Before(m, n)
    /\ simpc = "trials"
          => Len(sampleLog) = Len(allResults) * Cardinality(Distributed)
    /\ (simpc = "returned" /\ iterations >= 1)
          => Len(sampleLog) = iterations * Cardinality(Distributed)

\* a run of two trials or more over a profile with two distributions or more
\* and a fixed attribute has returned
C12_TrialsSampled ==
    /\ simpc = "returned"
    /\ iterations >= 2
    /\ Cardinality(Distributed) >= 2
    /\ Cardinality(Pairs) > Cardinality(Distributed)
    /\ Len(sampleLog) = iterations * Cardinality(Distributed)

\* C13: when simulateProfile fails, the error is the one of the validation,
\* no trial has started and no value has been sampled.
C13_FailsBeforeFirstTrial ==
    simpc = "threw"
    => /\ simError = "Schema validation failed"
       /\ allResults = <<>>
       /\ trialDraws = <<>>
       /\ sampleLog = <<>>

\* the validation has rejected a profile that holds a distribution of a kind
\* sampleDistribution would throw on, after an attribute it would sample
C13_RejectedBeforeSampling ==
    /\ simpc = "threw"
    /\ trialDraws = <<>>
    /\ \E p \in Pairs : /\ IsDistribution(AttributeAt(p).value)
                        /\ AttributeAt(p).value.distribution = "other"
                        /\ p[2] > 1

\* C14: no Discrete distribution whose values and weights differ in length is
\* passed to sampleDistribution: the validation has rejected it.
C14_LengthsChecked ==
    \A m \in 1..Len(sampleLog) :
        LoggedValue(sampleLog[m]).distribution = "discrete"
        => Len(LoggedValue(sampleLog[m]).values) = Len(LoggedValue(sampleLog[m]).weights)

\* C15: every Uniform distribution passed to sampleDistribution has max > min:
\* the validation has rejected the others.
C15_UniformOrdered ==
    \A m \in 1..Len(sampleLog) :
        LoggedValue(sampleLog[m]).distribution = "uniform"
        => LoggedValue(sampleLog[m]).max > LoggedValue(sampleLog[m]).min

\* the document has no archetype, or an archetype without attributes
EmptyCollection ==
    \/ document = <<>>
    \/ \E i \in 1..Len(document) : document[i].attributes = <<>>

\* C16: a document with an empty archetypes list or with an archetype whose
\* attributes list is empty is accepted neither by the JSON schema nor by the
\* Zod schema.
C16_EmptyCollectionsRejected ==
    EmptyCollection => (ajvVerdict # "accepted" /\ zodVerdict # "accepted")

\* the Numbers of a group, and the one of rank k in ascending order: fewer
\* than k of them are below it and at least k are not above it
GroupNumbers == [i \in 1..Len(group) |-> group[i].v]
Ranked(k) ==
    CHOOSE v \in {GroupNumbers[i] : i \in 1..Len(group)} :
        /\ Cardinality({i \in 1..Len(group) : GroupNumbers[i] < v}) < k
        /\ Cardinality({i \in 1..Len(group) : GroupNumbers[i] <= v}) >= k
\* the group is one of finite Numbers and is not empty
FiniteGroup ==
    /\ group # <<>>
    /\ AllNumbers(group)
    /\ \A i \in 1..Len(group) : group[i].fin

\* C17: for a non-empty group of numbers, the median is the middle element in
\* ascending order when the count is odd, the average of the two middle ones
\* when it is even; min and max are the first and the last in that order.
C17_MedianMinMax ==
    (stpc = "returned" /\ FiniteGroup) =>
        /\ stats.min = Num(Ranked(1))
        /\ stats.max = Num(Ranked(Len(group)))
        /\ stats.median =
              IF Len(group) % 2 = 1
              THEN Num(Ranked((Len(group) + 1) \div 2))
              ELSE Num(FDiv(FAdd(Ranked(Len(group) \div 2),
                                 Ranked((Len(group) \div 2) + 1)), 2 * Unit))

\* calculateStats has returned for a group of three Numbers that came in
\* descending order somewhere, and for which median, min and max differ
C17_UnsortedGroup ==
    /\ stpc = "returned"
    /\ FiniteGroup
    /\ Len(group) = 3
    /\ group[1].v > group[2].v
    /\ stats.min.v < stats.median.v
    /\ stats.median.v < stats.max.v

\* the sum of the squared deviations of the group from the mean reported, as
\* Numbers, added in ascending order
RECURSIVE SquaredDeviations(_, _)
SquaredDeviations(k, mean) ==
    IF k = 0 THEN 0
    ELSE FAdd(SquaredDeviations(k - 1, mean),
              FMul(FSub(Ranked(k), mean), FSub(Ranked(k), mean)))

C21_CountAtLeastOne ==
    simpc = "returned" =>
        \A p \in Distributed :
            SummaryEntry(p).kind \in {"numeric", "categorical"} =>
                /\ Len(allResults) >= 1
                /\ SummaryEntry(p).mean # NonFinite

\* the calls that start with the check of this.profile: runSimulation,
\* getSummary without results and the three exports
GuardedCall ==
    /\ lastCall.method \in {"runSimulation", "getSummary", "exportJson", "exportYaml",
                            "exportShorthand"}
    /\ lastCall.argument = NoArgument

\* C22: on a TanzoSimulator or TanzoExporter on which no loadProfile call has
\* succeeded, runSimulation, getSummary without results, exportJson,
\* exportYaml and exportShorthand throw 'No profile has been loaded.'; once a
\* loadProfile call has succeeded they do not throw that error.
C22_NoProfileLoaded ==
    GuardedCall =>
        IF loadedOnce
        THEN lastCall.error # "No profile has been loaded."
        ELSE /\ lastCall.outcome = "threw"
             /\ lastCall.error = "No profile has been loaded."

\* a guarded call has returned after a loadProfile call on the object had
\* succeeded
C22_CalledAfterLoad ==
    /\ GuardedCall
    /\ lastCall.outcome = "returned"
    /\ loadedOnce
    /\ loadCalls >= 2

\* C26: a loadProfile call that throws leaves this.profile as it was before
\* the call.
C26_FailedLoadKeepsProfile ==
    [][(lastCall'.method = "loadProfile" /\ lastCall'.outcome = "threw") => held' = held]_vars

\* a loadProfile call has failed validation on an object that holds a profile
C26_FailedLoadAfterLoad ==
    /\ lastCall.method = "loadProfile"
    /\ lastCall.outcome = "threw"
    /\ lastCall.error = "Profile validation failed"
    /\ held = ParsedProfile("A")

\* C23: runSimulation of index.ts never simulates a document that fails
\* validateDocument: on such a document it throws 'Invalid TanzoLang
\* document' and computes no trait value.
C23_InvalidNeverSimulated ==
    (indexpc = "done" /\ Len(ValidateDocument(indexDocument)) > 0)
        => /\ indexCall.outcome = "threw"
           /\ indexCall.error = "Invalid TanzoLang document"
           /\ indexCall.computed = 0

\* archetypeValues and attributeValues of a state
ModValues(state) == <<state.archetypeValues, state.attributeValues>>
\* position a comes before position b: the profile's list before every
\* archetype's, archetypes in profile order, each list in declared order
Precedes(a, b) ==
    \/ a.arch < b.arch
    \/ a.arch = b.arch /\ a.index < b.index
ModifierCount(at) ==
    IF at.arch = 0 THEN Len(modProfile.modifiers)
    ELSE Len(modProfile.archetypes[at.arch].modifiers)
\* a op b on two Numbers
Compare(operator, a, b) ==
    CASE operator = "eq" -> a = b
      [] operator = "neq" -> a # b
      [] operator = "gt" -> a > b
      [] operator = "lt" -> a < b
      [] operator = "gte" -> a >= b
      [] operator = "lte" -> a <= b
\* the condition of call k of applyEffect is on an attribute that has a value
Conditioned(k) ==
    /\ modLog[k].effect.condition.given
    /\ modLog[k].effect.condition.attribute \in DOMAIN modLog[k].seen.attributeValues
\* the condition of call k, on the attribute values vs
HoldsOn(k, vs) ==
    Compare(modLog[k].effect.condition.operator,
            vs[modLog[k].effect.condition.attribute].v,
            modLog[k].effect.condition.value)

\* C24: in simulateProfile the profile-level modifiers are applied before the
\* archetype-level ones, each list in its declared order and the archetypes
\* in profile order, every modifier once; each applyEffect call works on the
\* values the call before it left, and changes them only if its condition
\* holds on those values.
C24_ModifiersInOrder ==
    modpc \in {"modifiers", "returned"} =>
        LET active == modState.activeModifiers
            initial == InitialState(modProfile, modRandomize, modNative)
        IN  /\ \A k \in 1..Len(active) :
                  /\ active[k].arch \in 0..Len(modProfile.archetypes)
                  /\ active[k].index \in 1..ModifierCount(active[k])
            /\ \A k1, k2 \in 1..Len(active) :
                  k1 < k2 => Precedes(active[k1], active[k2])
            /\ modpc = "returned" =>
                  Len(active) = Len(modProfile.modifiers)
                                + Len(modProfile.archetypes[1].modifiers)
                                + Len(modProfile.archetypes[2].modifiers)
            /\ Len(modLog) = Len(active)
            /\ \A k \in 1..Len(modLog) :
                  /\ modLog[k].effect = ModifierAt(modProfile, active[k]).effect
                  /\ ModValues(modLog[k].seen) =
                        IF k = 1 THEN ModValues(initial)
                        ELSE ModValues(modLog[k - 1].left)
                  /\ (Conditioned(k) /\ ModValues(modLog[k].left) # ModValues(modLog[k].seen))
                        => HoldsOn(k, modLog[k].seen.attributeValues)
            /\ ModValues(modState) =
                  IF modLog = <<>> THEN ModValues(initial)
                  ELSE ModValues(modLog[Len(modLog)].left)

\* the call has returned after a profile-level modifier and a modifier of each
\* archetype; one effect was applied on a condition that holds on the values
\* it found and does not hold on the initial values
C24_ConditionOnCurrentState ==
    /\ modpc = "returned"
    /\ Len(modProfile.modifiers) >= 1
    /\ Len(modProfile.archetypes[1].modifiers) >= 1
    /\ Len(modProfile.archetypes[2].modifiers) >= 1
    /\ \E k \in 1..Len(modLog) :
          /\ Conditioned(k)
          /\ ModValues(modLog[k].left) # ModValues(modLog[k].seen)
          /\ HoldsOn(k, modLog[k].seen.attributeValues)
          /\ ~HoldsOn(k, InitialState(modProfile, modRandomize, modNative).attributeValues)

\* x is a Number in [0,1]
InUnitRange(x) == x.t = "number" /\ x.fin /\ x.v >= 0 /\ x.v <= Unit
\* the keys of vs whose value is not the one held in old
Written(old, vs) == {key \in DOMAIN vs : key \notin DOMAIN old \/ vs[key] # old[key]}

\* C25: every archetype or attribute value that applyEffect has written lies
\* in [0,1], and so does every attribute value written by the randomize
\* step.
C25_WrittenValuesInRange ==
    /\ \A k \in 1..Len(modLog) :
          /\ \A key \in Written(modLog[k].seen.archetypeValues,
                                modLog[k].left.archetypeValues) :
                InUnitRange(modLog[k].left.archetypeValues[key])
          /\ \A key \in Written(modLog[k].seen.attributeValues,
                                modLog[k].left.attributeValues) :
                InUnitRange(modLog[k].left.attributeValues[key])
    /\ (modpc = "modifiers" /\ modRandomize /\ modLog = <<>>) =>
          \A key \in DOMAIN modState.attributeValues :
              InUnitRange(modState.attributeValues[key])

\* C27: for every integer seed, every value the seeded generator of utils.ts
\* returns lies in [0,1) and its state stays in 0..233279 after every step.
C27_LcgInUnitInterval ==
    /\ Len(lcgOutputs) >= 1 => lcgState \in 0..(LcgModulus - 1)
    /\ \A k \in 1..Len(lcgOutputs) : lcgOutputs[k] >= 0 /\ lcgOutputs[k] < LcgModulus

\* the names of the capabilities of the profile
CapabilityNames ==
    {resProfile.capabilities[i].name : i \in 1..Len(resProfile.capabilities)}
\* the sum of the counters under the keys of S
RECURSIVE CounterSum(_)
CounterSum(S) ==
    IF S = {} THEN 0
    ELSE LET key == CHOOSE k \in S : TRUE
         IN  resResult.capabilityActivations[key].v + CounterSum(S \ {key})

\* C28: after any sequence of addIteration calls iterations equals the length
\* of each of the three value arrays, every key of capabilityActivations is a
\* capability of the profile and holds a count, and the counts sum to at most
\* iterations.
C28_ResultConsistent ==
    /\ resResult.iterations = Len(resResult.energyValues)
    /\ resResult.iterations = Len(resResult.resilienceValues)
    /\ resResult.iterations = Len(resResult.adaptabilityValues)
    /\ \A key \in DOMAIN resResult.capabilityActivations :
          /\ key \in CapabilityNames
          /\ resResult.capabilityActivations[key].t = "number"
    /\ (\A key \in DOMAIN resResult.capabilityActivations :
           resResult.capabilityActivations[key].t = "number")
          => CounterSum(DOMAIN resResult.capabilityActivations)
                <= resResult.iterations * Unit

\* the number of decisions of the outcome recorded for scenario i
Recorded(i, outcome) ==
    Cardinality({k \in 1..Len(decisions) :
                    /\ decisions[k].scenario = scenarios[i]
                    /\ decisions[k].outcome = outcome})
\* the count printed under the scenario name and the outcome, 0 if none
Printed(name, outcome) ==
    IF name \in DOMAIN scenarioOutcomes /\ outcome \in DOMAIN scenarioOutcomes[name]
    THEN scenarioOutcomes[name][outcome]
    ELSE 0

\* C29: the key scenario + '_' + outcome is split back into the same scenario
\* and outcome: the counts summarizeSimulation prints under a scenario are
\* the counts recorded for it, and they sum to the number of iterations.
C29_KeysSplitBack ==
    scenpc = "summarized" =>
        \A i \in 1..Len(scenarios) :
            /\ \A outcome \in Outcomes :
                  Printed(JoinParts(scenarios[i]), outcome) = Recorded(i, outcome)
            /\ Printed(JoinParts(scenarios[i]), "conservative")
               + Printed(JoinParts(scenarios[i]), "balanced")
               + Printed(JoinParts(scenarios[i]), "creative") = scenIterations

\* C30: exportShorthand of utils.ts leaves the profile it receives unchanged:
\* after the call profile.behavioral_rules and the traits are in the order
\* they had before.
C30_ExportLeavesProfile ==
    expCalls >= 1 =>
        /\ expProfile.behavioral_rules = expBefore.behavioral_rules
        /\ expProfile.traits = expBefore.traits

====
